---- MODULE Spec2Model ----
(***************************************************************************)
(* The alert dispatch pipeline of the Smart SOS Scrunchie app:             *)
(* SOSService.triggerSOS in its two builds (cloud-relay and                *)
(* direct-to-recipients, src/unnamed/part_001), FirebaseService            *)
(* (src/unnamed/part_000) and the two callers Home.handleSOSTrigger and    *)
(* TestSOS.sendTestSOS.  JavaScript runs the code between two awaits       *)
(* atomically, so every action is the continuation that runs when one      *)
(* awaited promise settles (or one timer fires); the value the promise     *)
(* settles with is the action's parameter, chosen by the environment.      *)
(* A promise that never settles is an action that is never taken.          *)
(*                                                                         *)
(* The link manager, BLEService (listed in                                 *)
(* src/Sos-app-master/FIREBASE_INSTRUCTIONS.md), is modelled the same way  *)
(* and has a specification of its own, LinkSpec.                           *)
(***************************************************************************)
EXTENDS Integers, Sequences, FiniteSets, TLC

\* Bounds of the model.
MaxTriggers == 2        \* triggerSOS calls in one behaviour of Spec
MaxSeqTriggers == 51    \* triggerSOS calls in one behaviour of SeqSpec
MaxContacts == 1        \* size of the stored contact list
MaxDevices == 2         \* peripherals in range
MaxServices == 2        \* services a peripheral exposes
MaxChars == 2           \* characteristics of one service
MaxDisconnects == 2     \* disconnect calls that may be awaiting at once
MaxDestroys == 2        \* destroy calls in one behaviour
MaxNotifications == 3   \* notifications in one behaviour
MaxBytes == 4           \* length of a byte sequence given to the codec
MaxEvents == 3          \* discovery events of one scanning session
MaxSessions == 2        \* DeviceScreen.startScan calls in one behaviour

\* logSOSEvent keeps the newest 50 entries.
LogCap == 50

VARIABLES
    mode,       \* which build of sos-service.ts is installed: "cloud" | "direct"
    platform,   \* Platform.OS
    directSms,  \* NativeModules.DirectSms is present
    contacts,   \* number of recipients stored under '@contacts'
    lastKnown,  \* the platform holds a cached position
    userId,     \* FirebaseService.userId ("none" is null)
    isSending,  \* SOSService.isSending, the single-flight guard
    isLoading,  \* TestSOS's isLoading state
    clock,      \* logical time: new Date() of the latest history entry built
    sosLogs,    \* the list stored under '@sos_logs', head first
    alerts,     \* the records created in the relay store's 'alerts' collection
    inv,        \* the triggerSOS invocations, by order of call
    bleModule,  \* react-native-ble-plx loaded (bleModuleAvailable)
    notifiable, \* isNotifiable of each characteristic of each service
    manager,    \* BLEService.manager: "null" | "live"
    initAttempted,   \* BLEService.initAttempted
    isScanning,      \* BLEService.isScanning
    deviceScan,      \* the platform's device scan is running
    connectedDevice, \* BLEService.connectedDevice (0 is null)
    transport,  \* the peripherals the platform holds a connection to
    monitors,   \* the characteristic subscriptions that carry the handler
    scan,       \* the scanForDevices call
    conn,       \* the connectToDevice call
    disc,       \* the disconnect calls
    built,      \* how often new BleManager() was called
    destroys,   \* how often manager.destroy() was called
    devices,    \* DeviceScreen's devices state, the discovered-device list
    events,     \* what the scan callback was given since startDeviceScan
    timers,     \* DeviceScreen's startScan calls and their armed 15 s timers
    onSOSCallback,   \* BLEService.onSOSCallback is set
    notes,      \* the payload texts the peripheral notified, oldest first
    callbacks,  \* how often the signal callback was invoked
    codec       \* one run of the codec on a byte sequence

\* What the scan and connection steps of BLEService neither read nor write.
quiet == <<destroys, onSOSCallback, notes, callbacks, codec>>

\* The caller of scanForDevices and what its callbacks were given.
sink == <<devices, events, timers>>

\* The state of BLEService and of the platform's radio session.
link == <<bleModule, notifiable, manager, initAttempted, isScanning, deviceScan,
          connectedDevice, transport, monitors, scan, conn, disc, built,
          sink, quiet>>

\* The state of the dispatch pipeline, but for Platform.OS.
pipeline == <<mode, directSms, contacts, lastKnown, userId, isSending,
              isLoading, clock, sosLogs, alerts, inv>>

vars == <<mode, platform, directSms, contacts, lastKnown, userId, isSending,
          isLoading, clock, sosLogs, alerts, inv, link>>

build == <<mode, platform, directSms, contacts, lastKnown>>

Inv == DOMAIN inv

----------------------------------------------------------------------------
\* The outcomes triggerSOS returns.

AlreadyInProgress == [success |-> FALSE, message |-> "SOS already in progress"]
CloudSent == [success |-> TRUE, message |-> "SOS Sent to all apps!"]
SosFailed == [success |-> FALSE, message |-> "SOS failed: error"]
NoContacts ==
    [success |-> FALSE,
     message |-> "No emergency contacts configured. Please add contacts first."]
SentAutomatically ==
    [success |-> TRUE, message |-> "SOS sent automatically to N contact(s)!"]
ComposerOpened ==
    [success |-> TRUE, message |-> "SMS app opened for N contact(s). Please tap SEND!"]
ComposerOpenedFirst ==
    [success |-> TRUE,
     message |-> "SMS app opened. Please send to all N contacts manually."]
CouldNotOpen ==
    [success |-> FALSE,
     message |-> "Could not open SMS app. Please send emergency message manually."]
NoResult == [success |-> FALSE, message |-> ""]

\* The message of the history entry the cloud build writes on success.
CloudLogMessage == "SOS Alert Sent Successfully to all contacts!"

\* One slot of inv before its call.
IdleInv ==
    [caller |-> "none",     \* "home" | "test"
     accepted |-> FALSE,    \* the call passed the guard and set it
     pc |-> "idle",         \* the await the invocation is suspended at
     result |-> NoResult,   \* what the promise resolved to (pc = "done")
     threw |-> FALSE,       \* the promise was rejected instead
     caught |-> "none",     \* the step whose exception reached the top-level catch
     absorbed |-> {},       \* the steps whose failure a sub-step swallowed
     loc |-> "none",        \* coordinates acquired: "live" | "last" | "none"
     perm |-> "none",       \* location permission: "granted" | "denied" | "timeout"
     timedOut |-> FALSE,    \* the timer won the race against the position request
     late |-> "none",       \* how the abandoned position request settled: "fix" | "reject"
     fallback |-> "none",   \* getLastKnownPositionAsync: "fix" | "null" | "failed"
     progress |-> <<>>,     \* what onStatusUpdate received
     haptics |-> 0,         \* Vibration.vibrate calls of triggerSOS
     locCalls |-> 0,        \* calls of the location module
     creates |-> 0,         \* createSOSAlert calls
     recipients |-> -1,     \* direct build: contacts getContacts returned (-1: not yet)
     prompts |-> 0,         \* SEND_SMS permission requests
     smsGranted |-> FALSE,  \* the latest SEND_SMS request was granted
     sends |-> 0,           \* DirectSms.sendSmsToMultiple calls
     sent |-> FALSE,        \* a sendSmsToMultiple call returned without error
     canOpenTrue |-> FALSE, \* Linking.canOpenURL returned true
     opens |-> 0,           \* Linking.openURL calls
     openTo |-> "none",     \* the numbers of the opened sms: URI: "all" | "first"
     pending |-> NoResult,  \* direct build: sendEmergencySMS's result, being logged
     logpc |-> "none",      \* logSOSEvent: "read" | "write" | "done" | "failed"
     entry |-> [timestamp |-> 0, by |-> 0, location |-> FALSE, success |-> FALSE,
                message |-> ""],
     logbuf |-> <<>>,       \* the list logSOSEvent is about to store
     appended |-> 0,        \* entries this invocation stored
     cpc |-> "none",        \* the caller: "awaiting" | "handled"
     reported |-> "none"]   \* what the caller showed: "ok" | "failed" | "timeout"

InFlight(i) == inv[i].accepted /\ inv[i].pc # "done"
InFlightSet == {i \in Inv : InFlight(i)}

\* The slot of the next call.
IsNext(i) == inv[i].pc = "idle" /\ \A j \in Inv : j < i => inv[j].pc # "idle"

----------------------------------------------------------------------------
\* The history log.

\* logs.unshift(log); if (logs.length > 50) logs.pop()
Unshifted(logs, log) ==
    LET l == <<log>> \o logs
    IN  IF Len(l) > LogCap THEN SubSeq(l, 1, Len(l) - 1) ELSE l

\* new Date().toISOString() and the entry logSOSEvent builds.
NewEntry(i, location, success, message) ==
    [timestamp |-> clock + 1, by |-> i, location |-> location,
     success |-> success, message |-> message]

----------------------------------------------------------------------------
\* Positions and the maps link.  Coordinates are in tenths of a degree.

\* What getLastKnownPositionAsync and getCurrentPositionAsync report.
LastKnownPosition == [lat |-> 370, lng |-> -1220]
LivePosition == [lat |-> 375, lng |-> -1225]

\* { lat: 0, lng: 0 }, sent when there is no fix.
NoFixPosition == [lat |-> 0, lng |-> 0]

\* `${n}` of a JavaScript number: no fraction digits when the fraction is 0.
NumberToString(t) ==
    LET a == IF t < 0 THEN -t ELSE t
        digits == IF a % 10 = 0 THEN ToString(a \div 10)
                  ELSE ToString(a \div 10) \o "." \o ToString(a % 10)
    IN  IF t < 0 THEN "-" \o digits ELSE digits

\* `https://maps.google.com/?q=${lat},${lng}`
MapsLink(c) ==
    "https://maps.google.com/?q=" \o NumberToString(c.lat) \o ","
        \o NumberToString(c.lng)

\* The { url, coords } getLocationFast and getLocation return: both null,
\* or the position and its link.
LocationResult(r) ==
    CASE r.loc = "live" -> [coords |-> <<LivePosition>>,
                            url |-> <<MapsLink(LivePosition)>>]
      [] r.loc = "last" -> [coords |-> <<LastKnownPosition>>,
                            url |-> <<MapsLink(LastKnownPosition)>>]
      [] OTHER -> [coords |-> <<>>, url |-> <<>>]

----------------------------------------------------------------------------
\* SOSService.triggerSOS: the guard, the synchronous prefix, the catch.

\* The guard test left out: every call is accepted.
GuardRejects_Never == FALSE

\* if (this.isSending)
GuardRejects == isSending

\* The assignment left out: the guard keeps its value at the return.
GuardAfterReturn_Kept == isSending

\* this.isSending = false, the assignment before every return
GuardAfterReturn == FALSE

Put(i, r) == inv' = [inv EXCEPT ![i] = r]

\* A continuation that suspends at the next await.
Go(i, r) ==
    /\ Put(i, r)
    /\ UNCHANGED <<isSending, clock>>

\* The catch reports the alert as sent and logs it as sent.
CloudCatch_ReportsSuccess(i, r, step) ==
    /\ Put(i, [r EXCEPT !.pc = "done", !.caught = step, !.result = CloudSent,
                        !.logpc = "read",
                        !.entry = NewEntry(i, FALSE, TRUE, CloudLogMessage)])
    /\ isSending' = FALSE
    /\ clock' = clock + 1

\* The cloud build's catch: clear the guard, start logSOSEvent(null, false,
\* error.toString()) without awaiting it (it runs up to its getItem), return.
CloudCatch(i, r, step) ==
    /\ Put(i, [r EXCEPT !.pc = "done", !.caught = step, !.result = SosFailed,
                        !.logpc = "read",
                        !.entry = NewEntry(i, FALSE, FALSE, "error")])
    /\ isSending' = GuardAfterReturn
    /\ clock' = clock + 1

\* The direct build's catch: clear the guard and return; nothing is logged.
DirectCatch(i, r, step) ==
    /\ Put(i, [r EXCEPT !.pc = "done", !.caught = step, !.result = SosFailed])
    /\ isSending' = GuardAfterReturn
    /\ UNCHANGED clock

\* No catch: the exception rejects triggerSOS's promise, the guard stays.
TopLevelCatch_Rethrow(i, r, step) ==
    /\ Put(i, [r EXCEPT !.pc = "done", !.caught = step, !.threw = TRUE])
    /\ isSending' = TRUE
    /\ UNCHANGED clock

\* catch (error) of triggerSOS's try block.
TopLevelCatch(i, r, step) ==
    IF mode = "cloud" THEN CloudCatch(i, r, step) ELSE DirectCatch(i, r, step)

\* The first progress phase and the first await of each build.
FirstPhase == IF mode = "cloud" THEN "Initializing" ELSE "Loading contacts"
FirstAwait == IF mode = "cloud" THEN "initId" ELSE "contacts"

\* A call of triggerSOS by caller c, up to its first await.  h says whether
\* Vibration.vibrate or the progress callback throws ("haptic", "progress").
triggerSOS(i, c, h) ==
    LET r0 == [inv[i] EXCEPT !.caller = c, !.cpc = "awaiting"]
        r1 == [r0 EXCEPT !.accepted = TRUE]
    IN  IF GuardRejects
        THEN /\ Put(i, [r0 EXCEPT !.pc = "done", !.result = AlreadyInProgress])
             /\ UNCHANGED <<isSending, clock>>
        ELSE IF h = "haptic"
        THEN TopLevelCatch(i, r1, "haptic")
        ELSE IF h = "progress"
        THEN TopLevelCatch(i, [r1 EXCEPT !.haptics = 1], "progress")
        ELSE /\ Put(i, [r1 EXCEPT !.haptics = 1, !.progress = <<FirstPhase>>,
                                  !.pc = FirstAwait])
             /\ isSending' = TRUE
             /\ UNCHANGED clock

SyncOutcomes == {"ok", "haptic", "progress"}

----------------------------------------------------------------------------
\* The cloud build, await by await.

\* firebaseService.init: this.userId = await this.getOrCreateUserId(), which
\* returns the cached id, the stored or device id, or 'unknown_user' when the
\* storage throws; then registerForPushNotificationsAsync is called.
InitIdResolve(i, u) ==
    /\ inv[i].pc = "initId"
    /\ userId # "none" => u = userId
    /\ userId' = u
    /\ Go(i, [inv[i] EXCEPT !.pc = "initPush"])
    /\ UNCHANGED <<link, build, isLoading, sosLogs, alerts>>

UserIds == {"id", "unknown_user"}

\* A sending phase that calls createSOSAlert without telling onStatusUpdate.
SendAlert_Silent(i, r) ==
    LET r1 == [r EXCEPT !.creates = @ + 1]
    IN  IF userId = "none"
        THEN TopLevelCatch(i, r1, "create")
        ELSE Go(i, [r1 EXCEPT !.pc = "create"])

\* The location record no fix leaves, and the call of createSOSAlert that
\* follows getLocationFast (createSOSAlert throws when no user id is set).
SendAlert(i, r) ==
    LET r1 == [r EXCEPT !.progress =
                   IF r.loc = "none"
                   THEN @ \o <<"Sending Alert to Cloud", "No GPS Fix">>
                   ELSE @ \o <<"Sending Alert to Cloud">>,
                   !.creates = @ + 1]
    IN  IF userId = "none"
        THEN TopLevelCatch(i, r1, "create")
        ELSE Go(i, [r1 EXCEPT !.pc = "create"])

\* getLocationFast's own catch: the failure is swallowed, no coordinates.
LocationFailed(i, r) == SendAlert(i, [r EXCEPT !.absorbed = @ \cup {"location"}])

\* await firebaseService.init() settles; on success getLocationFast starts
\* with Location.getForegroundPermissionsAsync().
InitPushResolve(i, o) ==
    /\ inv[i].pc = "initPush"
    /\ IF o = "reject"
       THEN TopLevelCatch(i, inv[i], "init")
       ELSE Go(i, [inv[i] EXCEPT !.progress = @ \o <<"Getting location">>,
                                 !.locCalls = @ + 1, !.pc = "permCheck"])
    /\ UNCHANGED <<link, build, userId, isLoading, sosLogs, alerts>>

SettleOutcomes == {"ok", "reject"}

\* getForegroundPermissionsAsync settles: granted starts the position race,
\* anything else the permission request race.
PermCheckResolve(i, o) ==
    /\ inv[i].pc = "permCheck"
    /\ CASE o = "granted" ->
              Go(i, [inv[i] EXCEPT !.perm = "granted", !.locCalls = @ + 1,
                                   !.pc = "position"])
         [] o = "denied" ->
              Go(i, [inv[i] EXCEPT !.locCalls = @ + 1, !.pc = "permReq"])
         [] OTHER -> LocationFailed(i, inv[i])
    /\ UNCHANGED <<link, build, userId, isLoading, sosLogs, alerts>>

PermOutcomes == {"granted", "denied", "reject"}

\* requestForegroundPermissionsAsync wins the race against the 2 s timer.
PermReqResolve(i, o) ==
    /\ inv[i].pc = "permReq"
    /\ CASE o = "granted" ->
              Go(i, [inv[i] EXCEPT !.perm = "granted", !.locCalls = @ + 1,
                                   !.pc = "position"])
         [] o = "denied" -> SendAlert(i, [inv[i] EXCEPT !.perm = "denied"])
         [] OTHER -> LocationFailed(i, inv[i])
    /\ UNCHANGED <<link, build, userId, isLoading, sosLogs, alerts>>

\* The timeout is taken for a grant: the position is requested.
PermReqTimeout_Proceeds(i) ==
    /\ inv[i].pc = "permReq"
    /\ Go(i, [inv[i] EXCEPT !.perm = "timeout", !.locCalls = @ + 1,
                             !.pc = "position"])
    /\ UNCHANGED <<link, build, userId, isLoading, sosLogs, alerts>>

\* The 2 s timer wins: status 'timeout'.
PermReqTimeout(i) ==
    /\ inv[i].pc = "permReq"
    /\ SendAlert(i, [inv[i] EXCEPT !.perm = "timeout"])
    /\ UNCHANGED <<link, build, userId, isLoading, sosLogs, alerts>>

\* getCurrentPositionAsync wins the race against the 5 s timer.
PositionResolve(i, o) ==
    /\ inv[i].pc = "position"
    /\ IF o = "fix"
       THEN SendAlert(i, [inv[i] EXCEPT !.loc = "live"])
       ELSE LocationFailed(i, inv[i])
    /\ UNCHANGED <<link, build, userId, isLoading, sosLogs, alerts>>

PositionOutcomes == {"fix", "reject"}

\* The 5 s timer wins: getLastKnownPositionAsync is awaited, with no timer.
PositionTimeout(i) ==
    /\ inv[i].pc = "position"
    /\ Go(i, [inv[i] EXCEPT !.timedOut = TRUE, !.locCalls = @ + 1,
                             !.pc = "lastKnown"])
    /\ UNCHANGED <<link, build, userId, isLoading, sosLogs, alerts>>

\* getLastKnownPositionAsync settles: the cached position, null when there
\* is none, or a rejection.
LastKnownResolve(i, o) ==
    /\ inv[i].pc = "lastKnown"
    /\ o = "fix" => lastKnown
    /\ o = "null" => ~lastKnown
    /\ CASE o = "fix" ->
              SendAlert(i, [inv[i] EXCEPT !.loc = "last", !.fallback = "fix"])
         [] o = "null" -> SendAlert(i, [inv[i] EXCEPT !.fallback = "null"])
         [] OTHER -> LocationFailed(i, [inv[i] EXCEPT !.fallback = "failed"])
    /\ UNCHANGED <<link, build, userId, isLoading, sosLogs, alerts>>

LastKnownOutcomes == {"fix", "null", "reject"}

\* A handler on the abandoned request that takes the late position.
PositionLate_Adopted(i, o) ==
    /\ inv[i].timedOut /\ inv[i].late = "none"
    /\ Go(i, [inv[i] EXCEPT !.late = o,
                             !.loc = IF o = "fix" THEN "live" ELSE @])
    /\ UNCHANGED <<link, build, userId, isLoading, sosLogs, alerts>>

\* The getCurrentPositionAsync that lost the race settles: Promise.race has
\* settled already and nothing else holds the promise.
PositionLate(i, o) ==
    /\ inv[i].timedOut /\ inv[i].late = "none"
    /\ Go(i, [inv[i] EXCEPT !.late = o])
    /\ UNCHANGED <<link, build, userId, isLoading, sosLogs, alerts>>

\* The record always carries the position slot's default and no status.
AlertRecord_Bare(i) ==
    [by |-> i, senderId |-> userId, location |-> NoFixPosition,
     locationUrl |-> "", status |-> ""]

\* The record createSOSAlert adds to the 'alerts' collection.
AlertRecord(i) ==
    LET l == LocationResult(inv[i])
    IN  [by |-> i, senderId |-> userId,
         location |-> IF l.coords # <<>> THEN l.coords[1] ELSE NoFixPosition,
         locationUrl |-> IF l.coords # <<>>
                         THEN (IF l.url # <<>> THEN l.url[1] ELSE "")
                         ELSE "Location not available",
         status |-> "active"]

\* await firebaseService.createSOSAlert settles.  On success: logSOSEvent is
\* started and not awaited, the completion cue, the guard is cleared, return.
CreateResolve(i, o) ==
    /\ inv[i].pc = "create"
    /\ IF o = "reject"
       THEN /\ TopLevelCatch(i, inv[i], "create")
            /\ UNCHANGED alerts
       ELSE /\ alerts' = alerts \cup {AlertRecord(i)}
            /\ Put(i, [inv[i] EXCEPT !.pc = "done", !.result = CloudSent,
                                     !.haptics = @ + 1, !.logpc = "read",
                                     !.entry = NewEntry(i, inv[i].loc # "none",
                                                        TRUE, CloudLogMessage)])
            /\ isSending' = GuardAfterReturn
            /\ clock' = clock + 1
    /\ UNCHANGED <<link, build, userId, isLoading, sosLogs>>

----------------------------------------------------------------------------
\* logSOSEvent, which both builds share but for the entry's contacts field.

\* The direct build awaits logSOSEvent; when it settles triggerSOS gives the
\* completion cue on success, clears the guard and returns the channel result.
AfterLog(r) ==
    IF r.pc = "log"
    THEN [r EXCEPT !.pc = "done", !.result = r.pending,
                   !.haptics = IF r.pending.success THEN @ + 1 ELSE @]
    ELSE r

GuardAfterLog(r) == IF r.pc = "log" THEN GuardAfterReturn ELSE isSending

\* AsyncStorage.getItem settles: parse, unshift, pop, call setItem.  A throw
\* is caught by logSOSEvent itself and nothing is stored.
LogRead(i, o) ==
    /\ inv[i].logpc = "read"
    /\ IF o = "reject"
       THEN /\ Put(i, AfterLog([inv[i] EXCEPT !.logpc = "failed"]))
            /\ isSending' = GuardAfterLog(inv[i])
       ELSE /\ Put(i, [inv[i] EXCEPT !.logpc = "write",
                                     !.logbuf = Unshifted(sosLogs, inv[i].entry)])
            /\ UNCHANGED isSending
    /\ UNCHANGED <<link, build, userId, isLoading, clock, sosLogs, alerts>>

\* AsyncStorage.setItem settles.
LogWrite(i, o) ==
    /\ inv[i].logpc = "write"
    /\ IF o = "reject"
       THEN /\ Put(i, AfterLog([inv[i] EXCEPT !.logpc = "failed", !.logbuf = <<>>]))
            /\ UNCHANGED sosLogs
       ELSE /\ Put(i, AfterLog([inv[i] EXCEPT !.logpc = "done", !.logbuf = <<>>,
                                              !.appended = @ + 1]))
            /\ sosLogs' = inv[i].logbuf
    /\ isSending' = GuardAfterLog(inv[i])
    /\ UNCHANGED <<link, build, userId, isLoading, clock, alerts>>

----------------------------------------------------------------------------
\* The callers.

\* sosService.resetSendingState()
resetSendingState == isSending' = FALSE

\* Home.handleSOSTrigger, called by the link manager on an SOS signal: the
\* call of triggerSOS raced against a 15 s timer.  Home imports the cloud
\* build (only that build has resetSendingState).
handleSOSTrigger(i, h) ==
    /\ mode = "cloud"
    /\ IsNext(i)
    /\ triggerSOS(i, "home", h)
    /\ UNCHANGED <<link, build, userId, isLoading, sosLogs, alerts>>

\* The race is won by triggerSOS's promise: show the result; on a result
\* that is not a success (and in the catch) the guard is reset.
HomeResult(i) ==
    /\ inv[i].caller = "home"
    /\ inv[i].cpc = "awaiting"
    /\ inv[i].pc = "done"
    /\ IF ~inv[i].threw /\ inv[i].result.success
       THEN /\ Put(i, [inv[i] EXCEPT !.cpc = "handled", !.reported = "ok"])
            /\ UNCHANGED isSending
       ELSE /\ Put(i, [inv[i] EXCEPT !.cpc = "handled", !.reported = "failed"])
            /\ resetSendingState
    /\ UNCHANGED <<link, build, userId, isLoading, clock, sosLogs, alerts>>

\* The race is won by the 15 s timer: its result is a failure like any other.
HomeTimeout(i) ==
    /\ inv[i].caller = "home"
    /\ inv[i].cpc = "awaiting"
    /\ inv[i].pc # "done"
    /\ Put(i, [inv[i] EXCEPT !.cpc = "handled", !.reported = "timeout"])
    /\ resetSendingState
    /\ UNCHANGED <<link, build, userId, isLoading, clock, sosLogs, alerts>>

\* TestSOS.sendTestSOS: if (isLoading) return; setIsLoading(true); triggerSOS.
sendTestSOS(i, h) ==
    /\ ~isLoading
    /\ IsNext(i)
    /\ isLoading' = TRUE
    /\ triggerSOS(i, "test", h)
    /\ UNCHANGED <<link, build, userId, sosLogs, alerts>>

\* sendTestSOS after its await: show the result; finally setIsLoading(false).
TestResult(i) ==
    /\ inv[i].caller = "test"
    /\ inv[i].cpc = "awaiting"
    /\ inv[i].pc = "done"
    /\ Put(i, [inv[i] EXCEPT !.cpc = "handled",
                             !.reported = IF ~inv[i].threw /\ inv[i].result.success
                                          THEN "ok" ELSE "failed"])
    /\ isLoading' = FALSE
    /\ UNCHANGED <<link, build, userId, isSending, clock, sosLogs, alerts>>

----------------------------------------------------------------------------
\* The direct build, await by await.

\* await this.logSOSEvent(phoneNumbers, url, result.success, result.message)
ToLog(i, r, res) ==
    /\ Put(i, [r EXCEPT !.pc = "log", !.pending = res, !.logpc = "read",
                        !.entry = NewEntry(i, r.loc # "none", res.success,
                                           res.message)])
    /\ clock' = clock + 1
    /\ UNCHANGED isSending

\* buildSOSMessage's line about the location.
buildSOSMessage(r) ==
    LET l == LocationResult(r)
    IN  IF l.url # <<>> THEN "Location: " \o l.url[1]
        ELSE "Location: Unable to get location"

\* The compose-handoff of sendEmergencySMS starts: Linking.canOpenURL.
ToComposer(i, r) == Go(i, [r EXCEPT !.pc = "canOpen"])

\* After getLocation: the third progress phase, buildSOSMessage, and
\* sendEmergencySMS up to its first await.
ToSend(i, r) ==
    LET r1 == [r EXCEPT !.progress = @ \o <<"Sending SOS message">>]
    IN  IF platform = "android"
        THEN Go(i, [r1 EXCEPT !.prompts = @ + 1, !.pc = "smsPerm"])
        ELSE ToComposer(i, r1)

\* getContacts settles (a storage error is caught inside it and gives []).
\* No contact: clear the guard and return, with nothing logged.
ContactsLoaded(i, o) ==
    /\ inv[i].pc = "contacts"
    /\ LET n == IF o = "ok" THEN contacts ELSE 0
           r == [inv[i] EXCEPT !.recipients = n,
                               !.absorbed = IF o = "ok" THEN @
                                            ELSE @ \cup {"contacts"}]
       IN  IF n = 0
           THEN /\ Put(i, [r EXCEPT !.pc = "done", !.result = NoContacts])
                /\ isSending' = GuardAfterReturn
                /\ UNCHANGED clock
           ELSE Go(i, [r EXCEPT !.progress = @ \o <<"Getting your location">>,
                                !.locCalls = @ + 1, !.pc = "locPerm"])
    /\ UNCHANGED <<link, build, userId, isLoading, sosLogs, alerts>>

\* getLocation: requestForegroundPermissionsAsync settles (no timer).
LocPermResolve(i, o) ==
    /\ inv[i].pc = "locPerm"
    /\ CASE o = "granted" ->
              Go(i, [inv[i] EXCEPT !.perm = "granted", !.locCalls = @ + 1,
                                   !.pc = "locPosition"])
         [] o = "denied" -> ToSend(i, [inv[i] EXCEPT !.perm = "denied"])
         [] OTHER -> ToSend(i, [inv[i] EXCEPT !.absorbed = @ \cup {"location"}])
    /\ UNCHANGED <<link, build, userId, isLoading, sosLogs, alerts>>

\* getLocation: getCurrentPositionAsync wins the race against the 10 s timer.
LocPositionResolve(i, o) ==
    /\ inv[i].pc = "locPosition"
    /\ IF o = "fix"
       THEN ToSend(i, [inv[i] EXCEPT !.loc = "live"])
       ELSE ToSend(i, [inv[i] EXCEPT !.absorbed = @ \cup {"location"}])
    /\ UNCHANGED <<link, build, userId, isLoading, sosLogs, alerts>>

\* The 10 s timer wins: it rejects, and getLocation's catch returns no fix.
LocPositionTimeout(i) ==
    /\ inv[i].pc = "locPosition"
    /\ ToSend(i, [inv[i] EXCEPT !.timedOut = TRUE,
                                 !.absorbed = @ \cup {"location"}])
    /\ UNCHANGED <<link, build, userId, isLoading, sosLogs, alerts>>

\* The native module is taken to be there whatever the build.
HasDirectSms_Always == TRUE

\* if (NativeModules.DirectSms)
HasDirectSms == directSms

\* requestSmsPermission settles (a throw counts as not granted).  Whatever
\* it says, DirectSms is tried when the native module is present.
SmsPermResolve(i, o) ==
    /\ inv[i].pc = "smsPerm"
    /\ LET r == [inv[i] EXCEPT !.smsGranted = (o = "granted")]
       IN  IF HasDirectSms
           THEN Go(i, [r EXCEPT !.sends = @ + 1, !.pc = "directSend"])
           ELSE ToComposer(i, r)
    /\ UNCHANGED <<link, build, userId, isLoading, sosLogs, alerts>>

\* DirectSms.sendSmsToMultiple settles: sent, or rejected with code
\* PERMISSION_DENIED (the permission is requested again), or rejected.
DirectSendResolve(i, o) ==
    /\ inv[i].pc = "directSend"
    /\ CASE o = "ok" -> ToLog(i, [inv[i] EXCEPT !.sent = TRUE], SentAutomatically)
         [] o = "denied" ->
              Go(i, [inv[i] EXCEPT !.absorbed = @ \cup {"directSend"},
                                   !.prompts = @ + 1, !.pc = "smsPermRetry"])
         [] OTHER -> ToComposer(i, [inv[i] EXCEPT !.absorbed = @ \cup {"directSend"}])
    /\ UNCHANGED <<link, build, userId, isLoading, sosLogs, alerts>>

DirectSendOutcomes == {"ok", "denied", "reject"}

\* The second requestSmsPermission settles: granted retries the send.
SmsPermRetryResolve(i, o) ==
    /\ inv[i].pc = "smsPermRetry"
    /\ LET r == [inv[i] EXCEPT !.smsGranted = (o = "granted")]
       IN  IF o = "granted"
           THEN Go(i, [r EXCEPT !.sends = @ + 1, !.pc = "directRetry"])
           ELSE ToComposer(i, r)
    /\ UNCHANGED <<link, build, userId, isLoading, sosLogs, alerts>>

\* The retried sendSmsToMultiple settles.
DirectRetryResolve(i, o) ==
    /\ inv[i].pc = "directRetry"
    /\ IF o = "ok"
       THEN ToLog(i, [inv[i] EXCEPT !.sent = TRUE], SentAutomatically)
       ELSE ToComposer(i, inv[i])
    /\ UNCHANGED <<link, build, userId, isLoading, sosLogs, alerts>>

\* Linking.canOpenURL settles.  true: openURL, success.  false or a throw:
\* openURL for the first number, success without a check.  t: openURL
\* throws synchronously, the one way to 'Could not open SMS app'.
CanOpenResolve(i, o, t) ==
    /\ inv[i].pc = "canOpen"
    /\ LET r == [inv[i] EXCEPT !.canOpenTrue = (o = "true"),
                               !.absorbed = IF o = "reject" \/ t
                                            THEN @ \cup {"composer"} ELSE @]
       IN  CASE t -> ToLog(i, r, CouldNotOpen)
             [] ~t /\ o = "true" ->
                  ToLog(i, [r EXCEPT !.opens = @ + 1, !.openTo = "all"],
                        ComposerOpened)
             [] OTHER -> ToLog(i, [r EXCEPT !.opens = @ + 1, !.openTo = "first"],
                               ComposerOpenedFirst)
    /\ UNCHANGED <<link, build, userId, isLoading, sosLogs, alerts>>

CanOpenOutcomes == {"true", "false", "reject"}

----------------------------------------------------------------------------
\* BLEService, the link manager, await by await.

Devices == 1..MaxDevices
Services == 1..MaxServices
Chars == 1..MaxChars

\* connectedDevice = null
NoDevice == 0

\* The subscription to the HM10 service/characteristic pair, and the
\* subscription the fallback makes to characteristic c of service s.
PrimaryMonitor(d) == [device |-> d, svc |-> 0, chr |-> 0]
FallbackMonitor(d, s, c) == [device |-> d, svc |-> s, chr |-> c]

\* What stays as it is in every step of the link manager.
fixed == <<pipeline, platform, bleModule, notifiable>>

IdleScan ==
    [pc |-> "idle",         \* the await scanForDevices is suspended at
     errors |-> 0,          \* onError calls of the request
     granted |-> FALSE,     \* requestPermissions gave true
     preempted |-> FALSE]   \* connectToDevice was called while it awaited
IdleConn == [pc |-> "idle", device |-> NoDevice, result |-> "none", svc |-> 0]
IdleDisc == [pc |-> "idle", device |-> NoDevice]
DiscSlots == 1..MaxDisconnects

\* The codec before it is given an input.
IdleCodec == [bytes |-> <<>>, pc |-> "idle", encoded |-> <<>>, decoded |-> <<>>]

\* The fields of a new BLEService, before any call, and its callers.
Constructed ==
    /\ manager = "null"
    /\ initAttempted = FALSE
    /\ isScanning = FALSE
    /\ deviceScan = FALSE
    /\ connectedDevice = NoDevice
    /\ transport = {}
    /\ monitors = {}
    /\ scan = IdleScan
    /\ conn = IdleConn
    /\ disc = [k \in DiscSlots |-> IdleDisc]
    /\ built = 0
    /\ destroys = 0
    /\ devices = <<>>
    /\ events = <<>>
    /\ timers = [session |-> 0, owner |-> 0, armed |-> {}]
    /\ onSOSCallback = FALSE
    /\ notes = <<>>
    /\ callbacks = 0
    /\ codec = IdleCodec

\* initManager: one attempt to construct the BleManager; o says whether
\* the constructor throws.
initManager_Retry(o) ==
    IF initAttempted /\ manager # "null"
    THEN UNCHANGED <<manager, initAttempted, built>>
    ELSE /\ initAttempted' = TRUE
         /\ built' = IF platform # "web" /\ bleModule /\ built < 2
                     THEN built + 1 ELSE built
         /\ manager' = IF platform # "web" /\ bleModule /\ o = "ok"
                       THEN "live" ELSE "null"

initManager(o) ==
    IF initAttempted
    THEN UNCHANGED <<manager, initAttempted, built>>
    ELSE /\ initAttempted' = TRUE
         /\ built' = IF platform # "web" /\ bleModule THEN built + 1 ELSE built
         /\ manager' = IF platform # "web" /\ bleModule /\ o = "ok"
                       THEN "live" ELSE "null"

\* isAvailable(), which DeviceScreen calls when it renders.
isAvailable(o) ==
    /\ ~initAttempted
    /\ initManager(o)
    /\ UNCHANGED <<fixed, quiet, sink, isScanning, deviceScan,
                   connectedDevice, transport, monitors, scan, conn, disc>>

\* scanForDevices up to its first await: no manager is an error; on
\* Android requestPermissions awaits the permission dialog, elsewhere it
\* returns true and waitForBluetoothPoweredOn is awaited.
ScanCall(o) ==
    /\ scan.pc \in {"idle", "done"}
    /\ initManager(o)
    /\ scan' = IF manager' = "null"
               THEN [IdleScan EXCEPT !.pc = "done", !.errors = 1]
               ELSE IF platform = "android"
               THEN [IdleScan EXCEPT !.pc = "perm"]
               ELSE [IdleScan EXCEPT !.pc = "power", !.granted = TRUE]
    /\ UNCHANGED <<fixed, quiet, isScanning, deviceScan, connectedDevice,
                   transport, monitors, conn, disc>>

\* scanForDevices called with a sink that leaves the caller's list alone.
scanForDevices(o) ==
    /\ ScanCall(o)
    /\ UNCHANGED sink

\* scanForDevices has returned to DeviceScreen.startScan (session 0: to
\* another caller), which arms its 15 s timer: setTimeout(() => stopScan()).
Armed(t) ==
    IF t.session = 0 THEN t ELSE [t EXCEPT !.armed = @ \cup {t.session}]

\* requestPermissions settles; a throw counts as not granted.
ScanPermResolve(o) ==
    /\ scan.pc = "perm"
    /\ scan' = IF o = "granted"
               THEN [scan EXCEPT !.pc = "power", !.granted = TRUE]
               ELSE [scan EXCEPT !.pc = "done", !.errors = 1]
    /\ timers' = IF o = "granted" THEN timers ELSE Armed(timers)
    /\ UNCHANGED <<fixed, quiet, devices, events, built, manager,
                   initAttempted, isScanning, deviceScan, connectedDevice,
                   transport, monitors, conn, disc>>

\* The radio reports PoweredOn within the 10 s: isScanning = true and
\* startDeviceScan.
PoweredOn ==
    /\ scan.pc = "power"
    /\ isScanning' = TRUE
    /\ deviceScan' = TRUE
    /\ scan' = [scan EXCEPT !.pc = "done"]
    /\ events' = <<>>
    /\ timers' = Armed([timers EXCEPT !.owner = timers.session])
    /\ UNCHANGED <<fixed, quiet, devices, built, manager, initAttempted,
                   connectedDevice, transport, monitors, conn, disc>>

\* A wait for the radio that reports the timeout and scans all the same.
PowerTimeout_Starts ==
    /\ scan.pc = "power"
    /\ isScanning' = TRUE
    /\ deviceScan' = TRUE
    /\ scan' = [scan EXCEPT !.pc = "done", !.errors = 1]
    /\ events' = <<>>
    /\ timers' = Armed([timers EXCEPT !.owner = timers.session])
    /\ UNCHANGED <<fixed, quiet, devices, built, manager, initAttempted,
                   connectedDevice, transport, monitors, conn, disc>>

\* The 10 s timer fires first: 'Please enable Bluetooth'.
PowerTimeout ==
    /\ scan.pc = "power"
    /\ scan' = [scan EXCEPT !.pc = "done", !.errors = 1]
    /\ timers' = Armed(timers)
    /\ UNCHANGED <<fixed, quiet, devices, events, built, manager,
                   initAttempted, isScanning, deviceScan, connectedDevice,
                   transport, monitors, conn, disc>>

\* stopScan(): with a manager, isScanning = false and stopDeviceScan().
stopScan ==
    /\ manager # "null"
    /\ isScanning' = FALSE
    /\ deviceScan' = FALSE
    /\ UNCHANGED <<fixed, quiet, sink, built, manager, initAttempted, connectedDevice, transport,
                   monitors, scan, conn, disc>>

\* connectToDevice(device) up to its first await.  DeviceScreen disables
\* the device list while a connect is awaited.
connectToDevice(d) ==
    /\ conn.pc \in {"idle", "done"}
    /\ IF manager = "null"
       THEN /\ conn' = [IdleConn EXCEPT !.pc = "done", !.device = d,
                                        !.result = "false"]
            /\ UNCHANGED <<isScanning, deviceScan, scan>>
       ELSE /\ isScanning' = FALSE
            /\ deviceScan' = FALSE
            /\ conn' = [IdleConn EXCEPT !.pc = "connect", !.device = d]
            /\ scan' = IF scan.pc \in {"perm", "power"}
                       THEN [scan EXCEPT !.preempted = TRUE] ELSE scan
    /\ UNCHANGED <<fixed, quiet, sink, built, manager, initAttempted,
                   connectedDevice, transport, monitors, disc>>

\* manager.connectToDevice settles.  A rejection goes to the catch:
\* connectedDevice = null, return false.
ConnectResolve(o) ==
    /\ conn.pc = "connect"
    /\ IF o = "ok"
       THEN /\ transport' = transport \cup {conn.device}
            /\ conn' = [conn EXCEPT !.pc = "discover"]
            /\ UNCHANGED connectedDevice
       ELSE /\ connectedDevice' = NoDevice
            /\ conn' = [conn EXCEPT !.pc = "done", !.result = "false"]
            /\ UNCHANGED transport
    /\ UNCHANGED <<fixed, quiet, sink, built, manager, initAttempted, isScanning, deviceScan,
                   monitors, scan, disc>>

\* discoverAllServicesAndCharacteristics settles.  Resolved: connectedDevice
\* is set and monitorCharacteristicForService is called; when it returns,
\* connectToDevice returns true; when it throws (t), the fallback awaits
\* device.services().  Rejected: the catch, with nothing cancelled.
DiscoverResolve(o, t) ==
    /\ conn.pc = "discover"
    /\ IF o = "ok"
       THEN /\ connectedDevice' = conn.device
            /\ IF t
               THEN /\ conn' = [conn EXCEPT !.pc = "services"]
                    /\ UNCHANGED monitors
               ELSE /\ monitors' = monitors \cup {PrimaryMonitor(conn.device)}
                    /\ conn' = [conn EXCEPT !.pc = "done", !.result = "true"]
       ELSE /\ connectedDevice' = NoDevice
            /\ conn' = [conn EXCEPT !.pc = "done", !.result = "false"]
            /\ UNCHANGED monitors
    /\ UNCHANGED <<fixed, quiet, sink, built, manager, initAttempted, isScanning, deviceScan,
                   transport, scan, disc>>

\* The fallback's device.services() settles.  A rejection is caught inside
\* subscribeToNotifications, and connectToDevice returns true.
ServicesResolve(o) ==
    /\ conn.pc = "services"
    /\ conn' = IF o = "ok" THEN [conn EXCEPT !.pc = "chars", !.svc = 1]
               ELSE [conn EXCEPT !.pc = "done", !.result = "true"]
    /\ UNCHANGED <<fixed, quiet, sink, built, manager, initAttempted, isScanning, deviceScan,
                   connectedDevice, transport, monitors, scan, disc>>

\* service.characteristics() of the next service settles: every notifiable
\* characteristic of it is monitored; after the last service, or on a
\* rejection, connectToDevice returns true.
CharacteristicsResolve(o) ==
    /\ conn.pc = "chars"
    /\ IF o = "ok"
       THEN /\ monitors' = monitors \cup
                  {FallbackMonitor(conn.device, conn.svc, c) :
                       c \in {x \in Chars : notifiable[conn.svc][x]}}
            /\ conn' = IF conn.svc < MaxServices
                       THEN [conn EXCEPT !.svc = @ + 1]
                       ELSE [conn EXCEPT !.pc = "done", !.result = "true"]
       ELSE /\ conn' = [conn EXCEPT !.pc = "done", !.result = "true"]
            /\ UNCHANGED monitors
    /\ UNCHANGED <<fixed, quiet, sink, built, manager, initAttempted, isScanning, deviceScan,
                   connectedDevice, transport, scan, disc>>

\* disconnect() with a manager and a connected device, up to its await of
\* cancelDeviceConnection.
disconnect(k) ==
    /\ disc[k].pc = "idle"
    /\ manager # "null" /\ connectedDevice # NoDevice
    /\ disc' = [disc EXCEPT ![k] = [pc |-> "cancel", device |-> connectedDevice]]
    /\ UNCHANGED <<fixed, quiet, sink, built, manager, initAttempted, isScanning, deviceScan,
                   connectedDevice, transport, monitors, scan, conn>>

\* disconnect() without a manager or without a connected device: the if is
\* skipped and the call returns.
disconnectIdle(k) ==
    /\ disc[k].pc = "idle"
    /\ ~(manager # "null" /\ connectedDevice # NoDevice)
    /\ disc' = [disc EXCEPT ![k] = [pc |-> "returned", device |-> NoDevice]]
    /\ UNCHANGED <<fixed, quiet, sink, built, manager, initAttempted,
                   isScanning, deviceScan, connectedDevice, transport,
                   monitors, scan, conn>>

\* A disconnect that keeps connectedDevice when the cancel was rejected.
CancelResolve_KeepsOnFailure(k, o) ==
    /\ disc[k].pc = "cancel"
    /\ IF o = "ok"
       THEN /\ transport' = transport \ {disc[k].device}
            /\ monitors' = {m \in monitors : m.device # disc[k].device}
            /\ connectedDevice' = NoDevice
       ELSE UNCHANGED <<transport, monitors, connectedDevice>>
    /\ disc' = [disc EXCEPT ![k] = IdleDisc]
    /\ UNCHANGED <<fixed, quiet, sink, built, manager, initAttempted,
                   isScanning, deviceScan, scan, conn>>

\* cancelDeviceConnection settles; whatever it says, connectedDevice = null.
CancelResolve(k, o) ==
    /\ disc[k].pc = "cancel"
    /\ IF o = "ok"
       THEN /\ transport' = transport \ {disc[k].device}
            /\ monitors' = {m \in monitors : m.device # disc[k].device}
       ELSE UNCHANGED <<transport, monitors>>
    /\ connectedDevice' = NoDevice
    /\ disc' = [disc EXCEPT ![k] = IdleDisc]
    /\ UNCHANGED <<fixed, quiet, sink, built, manager, initAttempted, isScanning, deviceScan,
                   scan, conn>>

\* The link to peripheral d is lost: its subscriptions end with an error,
\* which the handlers log (primary) or ignore (fallback).
LinkError(d) ==
    /\ d \in transport
    /\ transport' = transport \ {d}
    /\ monitors' = {m \in monitors : m.device # d}
    /\ UNCHANGED <<fixed, quiet, sink, built, manager, initAttempted, isScanning, deviceScan,
                   connectedDevice, scan, conn, disc>>

\* String.prototype.includes, on texts given as sequences of characters.
Includes(text, part) ==
    \E i \in 0..(Len(text) - Len(part)) :
        SubSeq(text, i + 1, i + Len(part)) = part

\* What advertises near the phone: the peripherals of Devices, a phone whose
\* name has none of the substrings, a tag whose name has one in lower case,
\* and a beacon without a name.
Advertisers == 1..(MaxDevices + 3)

AdvertisedName(p) ==
    IF p = 1 THEN <<"H", "M", "-", "1", "0">>
    ELSE IF p \in Devices THEN <<"S", "O", "S", "-", "B", "a", "n", "d">>
    ELSE IF p = MaxDevices + 1 THEN <<"P", "i", "x", "e", "l">>
    ELSE IF p = MaxDevices + 2 THEN <<"b", "l", "e", "-", "t", "a", "g">>
    ELSE <<>>

\* A test that passes every device with a name.
NameAccepted_AnyName(name) == name # <<>>

\* The test of the scan callback on device.name; a null or empty name fails.
NameAccepted(name) ==
    /\ name # <<>>
    /\ \/ Includes(name, <<"H", "M">>)
       \/ Includes(name, <<"B", "T">>)
       \/ Includes(name, <<"S", "O", "S">>)
       \/ Includes(name, <<"M", "L", "T">>)
       \/ Includes(name, <<"B", "L", "E">>)

\* The identifiers in DeviceScreen's list.
Listed(list) == {list[i] : i \in DOMAIN list}

\* DeviceScreen.startScan off the web: setError(null), setDevices([]),
\* setIsScanning(true) and scanForDevices up to its first await.
startScan(o) ==
    /\ platform # "web"
    /\ timers.session < MaxSessions
    /\ ScanCall(o)
    /\ devices' = <<>>
    /\ timers' = LET t == [timers EXCEPT !.session = @ + 1]
                 IN  IF scan'.pc = "done" THEN Armed(t) ELSE t
    /\ UNCHANGED events

\* A 15 s timer of startScan fires: DeviceScreen.stopScan, which calls
\* bleService.stopScan() and setIsScanning(false).
AutoStop(n) ==
    /\ n \in timers.armed
    /\ timers' = [timers EXCEPT !.armed = @ \ {n}]
    /\ IF manager # "null"
       THEN isScanning' = FALSE /\ deviceScan' = FALSE
       ELSE UNCHANGED <<isScanning, deviceScan>>
    /\ UNCHANGED <<fixed, quiet, devices, events, built, manager,
                   initAttempted, connectedDevice, transport, monitors, scan,
                   conn, disc>>

\* An updater of setDevices that appends without looking.
AddDevice_NoCheck(prev, p) == Append(prev, p)

\* The updater startScan gives to setDevices: prev when the id is in it.
AddDevice(prev, p) ==
    IF \E i \in DOMAIN prev : prev[i] = p THEN prev ELSE Append(prev, p)

\* The platform scan reports advertiser p to the scan callback, which calls
\* the device sink when the name passes.
DeviceFound(p) ==
    /\ deviceScan
    /\ Len(events) < MaxEvents
    /\ events' = Append(events, [id |-> p,
                                 given |-> NameAccepted(AdvertisedName(p))])
    /\ devices' = IF NameAccepted(AdvertisedName(p))
                  THEN AddDevice(devices, p) ELSE devices
    /\ UNCHANGED <<fixed, quiet, timers, built, manager, initAttempted, isScanning,
                   deviceScan, connectedDevice, transport, monitors, scan,
                   conn, disc>>

\* The string chars of base64Decode: a character's index in it is its
\* position here less one, and '=' has index 64.
Alphabet ==
    <<"A", "B", "C", "D", "E", "F", "G", "H", "I", "J", "K", "L", "M",
      "N", "O", "P", "Q", "R", "S", "T", "U", "V", "W", "X", "Y", "Z",
      "a", "b", "c", "d", "e", "f", "g", "h", "i", "j", "k", "l", "m",
      "n", "o", "p", "q", "r", "s", "t", "u", "v", "w", "x", "y", "z",
      "0", "1", "2", "3", "4", "5", "6", "7", "8", "9", "+", "/", "=">>

InAlphabet(c) == \E i \in DOMAIN Alphabet : Alphabet[i] = c

\* chars.indexOf(c): -1 for a character that is not in chars, and 0 for the
\* empty string, which is what charAt gives past the end of the text.
IndexOf(c) ==
    IF c = "" THEN 0
    ELSE IF InAlphabet(c)
    THEN (CHOOSE i \in DOMAIN Alphabet : Alphabet[i] = c) - 1
    ELSE -1

\* text.charAt(i), i counted from 0.
CharAt(text, i) == IF i < Len(text) THEN text[i + 1] ELSE ""

\* The bitwise operators of base64Decode, on the non-negative integers the
\* indices are once the text is stripped.
RECURSIVE BitAnd(_, _)
BitAnd(a, b) ==
    IF a = 0 \/ b = 0 THEN 0
    ELSE (a % 2) * (b % 2) + 2 * BitAnd(a \div 2, b \div 2)

RECURSIVE BitOr(_, _)
BitOr(a, b) ==
    IF a = 0 THEN b
    ELSE IF b = 0 THEN a
    ELSE (IF a % 2 = 1 \/ b % 2 = 1 THEN 1 ELSE 0)
             + 2 * BitOr(a \div 2, b \div 2)

ShiftLeft(a, n) == a * 2^n
ShiftRight(a, n) == a \div 2^n

\* String.fromCharCode(n), a character given by its code unit.
fromCharCode(n) == n % 65536

\* A decoding of one group that emits three characters whatever enc3 and
\* enc4 are.
DecodeGroup_NoPadding(enc1, enc2, enc3, enc4) ==
    <<fromCharCode(BitOr(ShiftLeft(enc1, 2), ShiftRight(enc2, 4))),
      fromCharCode(BitOr(ShiftLeft(BitAnd(enc2, 15), 4), ShiftRight(enc3, 2))),
      fromCharCode(BitOr(ShiftLeft(BitAnd(enc3, 3), 6), enc4))>>

\* One pass of the while loop of base64Decode: chr1 always, chr2 unless
\* enc3 is 64, chr3 unless enc4 is 64.
DecodeGroup(enc1, enc2, enc3, enc4) ==
    LET chr1 == BitOr(ShiftLeft(enc1, 2), ShiftRight(enc2, 4))
        chr2 == BitOr(ShiftLeft(BitAnd(enc2, 15), 4), ShiftRight(enc3, 2))
        chr3 == BitOr(ShiftLeft(BitAnd(enc3, 3), 6), enc4)
    IN  <<fromCharCode(chr1)>>
          \o (IF enc3 # 64 THEN <<fromCharCode(chr2)>> ELSE <<>>)
          \o (IF enc4 # 64 THEN <<fromCharCode(chr3)>> ELSE <<>>)

RECURSIVE DecodeFrom(_, _)
DecodeFrom(text, i) ==
    IF i >= Len(text) THEN <<>>
    ELSE DecodeGroup(IndexOf(CharAt(text, i)), IndexOf(CharAt(text, i + 1)),
                     IndexOf(CharAt(text, i + 2)), IndexOf(CharAt(text, i + 3)))
           \o DecodeFrom(text, i + 4)

\* base64Decode(base64): the text is stripped of every character outside
\* chars and decoded four characters at a time.  The result is the
\* sequence of the code units of the output string.
base64Decode(base64) == DecodeFrom(SelectSeq(base64, InAlphabet), 0)

\* characteristic.value as the platform makes it from the bytes the
\* peripheral wrote: standard base64, three bytes to four characters, with
\* '=' in place of the characters a short last group lacks.
RECURSIVE EncodeFrom(_, _)
EncodeFrom(bytes, i) ==
    IF i >= Len(bytes) THEN <<>>
    ELSE LET n  == Len(bytes) - i
             b1 == bytes[i + 1]
             b2 == IF n >= 2 THEN bytes[i + 2] ELSE 0
             b3 == IF n >= 3 THEN bytes[i + 3] ELSE 0
         IN  <<Alphabet[(b1 \div 4) + 1],
               Alphabet[(b1 % 4) * 16 + (b2 \div 16) + 1],
               IF n >= 2 THEN Alphabet[(b2 % 16) * 4 + (b3 \div 64) + 1]
               ELSE "=",
               IF n >= 3 THEN Alphabet[(b3 % 64) + 1] ELSE "=">>
               \o EncodeFrom(bytes, i + 3)

encode(bytes) == EncodeFrom(bytes, 0)

\* The byte sequences given to the codec.
ByteSamples == {0, 49, 83, 251, 255}
ByteSeqs == UNION {[1..n -> ByteSamples] : n \in 0..MaxBytes}

\* The platform encodes the bytes of a characteristic.
Encode ==
    /\ codec.pc = "idle"
    /\ codec' = [codec EXCEPT !.pc = "encoded", !.encoded = encode(codec.bytes)]
    /\ UNCHANGED <<fixed, destroys, onSOSCallback, notes, callbacks, sink,
                   built, manager, initAttempted, isScanning, deviceScan,
                   connectedDevice, transport, monitors, scan, conn, disc>>

\* base64Decode is applied to the value.
Decode ==
    /\ codec.pc = "encoded"
    /\ codec' = [codec EXCEPT !.pc = "decoded",
                              !.decoded = base64Decode(codec.encoded)]
    /\ UNCHANGED <<fixed, destroys, onSOSCallback, notes, callbacks, sink,
                   built, manager, initAttempted, isScanning, deviceScan,
                   connectedDevice, transport, monitors, scan, conn, disc>>

\* SOS_SIGNAL, 'SOS', as code units.
SOS_SIGNAL == <<83, 79, 83>>

\* A test that knows the signal word only.
classifyAsSOS_SignalOnly(data) == Includes(data, SOS_SIGNAL)

\* The test both handlers make on the decoded data:
\* data.includes(SOS_SIGNAL) || data.includes('1').
classifyAsSOS(data) == Includes(data, SOS_SIGNAL) \/ Includes(data, <<49>>)

\* A handler that signals the first time only.
SignalCalls_Once(value) ==
    IF /\ value # <<>>
       /\ classifyAsSOS(base64Decode(value))
       /\ onSOSCallback
       /\ callbacks = 0
    THEN 1 ELSE 0

\* How often a handler calls onSOSCallback for a characteristic with this
\* value: once when the value is not empty, its decoding passes the test
\* and a callback is set.
SignalCalls(value) ==
    IF /\ value # <<>>
       /\ classifyAsSOS(base64Decode(value))
       /\ onSOSCallback
    THEN 1 ELSE 0

\* The handler of the primary subscription returns on an error.
PrimaryHandler(error, value) == IF error THEN 0 ELSE SignalCalls(value)

\* The handler of a fallback subscription does not look at the error, with
\* which no characteristic comes.
FallbackHandler(error, value) == IF error THEN 0 ELSE SignalCalls(value)

\* The texts the peripheral notifies, as bytes: 'SOS', 'x1y', 'ok', '1',
\* 'sos' and the empty text.
Payloads ==
    {<<83, 79, 83>>, <<120, 49, 121>>, <<111, 107>>, <<49>>,
     <<115, 111, 115>>, <<>>}

\* setSOSCallback(callback), which Home calls with handleSOSTrigger.
setSOSCallback ==
    /\ onSOSCallback' = TRUE
    /\ UNCHANGED <<fixed, destroys, notes, callbacks, codec, sink, built,
                   manager, initAttempted, isScanning, deviceScan,
                   connectedDevice, transport, monitors, scan, conn, disc>>

\* The peripheral notifies text t on the characteristic of subscription m:
\* the platform calls the handler of m with the value.
Notify(m, t) ==
    /\ m \in monitors
    /\ Len(notes) < MaxNotifications
    /\ callbacks' = callbacks + IF m = PrimaryMonitor(m.device)
                                THEN PrimaryHandler(FALSE, encode(t))
                                ELSE FallbackHandler(FALSE, encode(t))
    /\ notes' = Append(notes, [text |-> t,
                               primary |-> (m = PrimaryMonitor(m.device)),
                               registered |-> onSOSCallback])
    /\ UNCHANGED <<fixed, destroys, onSOSCallback, codec, sink, built,
                   manager, initAttempted, isScanning, deviceScan,
                   connectedDevice, transport, monitors, scan, conn, disc>>

\* manager.destroy() has been called: the radio session is released.
Released == destroys > 0

\* destroy(): disconnect() is called and not awaited, so it runs up to its
\* await of cancelDeviceConnection; then, with a manager, manager.destroy()
\* is called.  The manager field is left as it is.  Releasing the session
\* closes every connection, ends every subscription and stops the scan.
destroy(k) ==
    /\ destroys < MaxDestroys
    /\ disc[k].pc = "idle"
    /\ disc' = [disc EXCEPT ![k] =
                  IF manager # "null" /\ connectedDevice # NoDevice
                  THEN [pc |-> "cancel", device |-> connectedDevice]
                  ELSE [pc |-> "returned", device |-> NoDevice]]
    /\ IF manager # "null"
       THEN /\ destroys' = destroys + 1
            /\ transport' = {}
            /\ monitors' = {}
            /\ deviceScan' = FALSE
       ELSE UNCHANGED <<destroys, transport, monitors, deviceScan>>
    /\ UNCHANGED <<fixed, onSOSCallback, notes, callbacks, codec, sink,
                   built, manager, initAttempted, isScanning, connectedDevice,
                   scan, conn>>

----------------------------------------------------------------------------
\* The specification.

Slots == 1..MaxTriggers

\* The cloud build reads neither the platform, the native module nor the
\* contact list; the direct build does not use FirebaseService.
Init ==
    /\ mode \in {"cloud", "direct"}
    /\ IF mode = "cloud"
       THEN /\ platform = "android" /\ directSms = FALSE /\ contacts = 0
            /\ lastKnown \in BOOLEAN
            /\ userId \in {"none"} \cup UserIds
       ELSE /\ platform \in {"android", "ios"}
            /\ directSms \in BOOLEAN
            /\ contacts \in 0..MaxContacts
            /\ lastKnown \in BOOLEAN
            /\ userId = "none"
    /\ isSending = FALSE
    /\ isLoading = FALSE
    /\ clock = 0
    /\ sosLogs = <<>>
    /\ alerts = {}
    /\ inv = [i \in Slots |-> IdleInv]
    /\ bleModule = TRUE
    /\ notifiable = [s \in Services |-> [c \in Chars |-> FALSE]]
    /\ Constructed

Next ==
    \/ \E i \in Slots, h \in SyncOutcomes : handleSOSTrigger(i, h)
    \/ \E i \in Slots : HomeResult(i)
    \/ \E i \in Slots : HomeTimeout(i)
    \/ \E i \in Slots, h \in SyncOutcomes : sendTestSOS(i, h)
    \/ \E i \in Slots : TestResult(i)
    \/ \E i \in Slots, u \in UserIds : InitIdResolve(i, u)
    \/ \E i \in Slots, o \in SettleOutcomes : InitPushResolve(i, o)
    \/ \E i \in Slots, o \in PermOutcomes : PermCheckResolve(i, o)
    \/ \E i \in Slots, o \in PermOutcomes : PermReqResolve(i, o)
    \/ \E i \in Slots : PermReqTimeout(i)
    \/ \E i \in Slots, o \in PositionOutcomes : PositionResolve(i, o)
    \/ \E i \in Slots : PositionTimeout(i)
    \/ \E i \in Slots, o \in LastKnownOutcomes : LastKnownResolve(i, o)
    \/ \E i \in Slots, o \in SettleOutcomes : CreateResolve(i, o)
    \/ \E i \in Slots, o \in SettleOutcomes : LogRead(i, o)
    \/ \E i \in Slots, o \in SettleOutcomes : LogWrite(i, o)
    \/ \E i \in Slots, o \in SettleOutcomes : ContactsLoaded(i, o)
    \/ \E i \in Slots, o \in PermOutcomes : LocPermResolve(i, o)
    \/ \E i \in Slots, o \in PositionOutcomes : LocPositionResolve(i, o)
    \/ \E i \in Slots : LocPositionTimeout(i)
    \/ \E i \in Slots, o \in PermOutcomes : SmsPermResolve(i, o)
    \/ \E i \in Slots, o \in DirectSendOutcomes : DirectSendResolve(i, o)
    \/ \E i \in Slots, o \in PermOutcomes : SmsPermRetryResolve(i, o)
    \/ \E i \in Slots, o \in SettleOutcomes : DirectRetryResolve(i, o)
    \/ \E i \in Slots, o \in CanOpenOutcomes, t \in BOOLEAN : CanOpenResolve(i, o, t)

Spec == Init /\ [][Next]_vars

----------------------------------------------------------------------------
\* The single-flight guard.

\* C1: while the guard is set, a call of triggerSOS returns at once with
\* success=false and 'SOS already in progress'; it emits no progress, gives
\* no haptic cue, calls neither the location module, a delivery channel nor
\* createSOSAlert, starts no history entry, and changes nothing else.
C1_RejectedWhileGuardHeld ==
    [][\A i \in Slots :
          (isSending /\ inv[i].pc = "idle" /\ inv'[i].pc # "idle") =>
              /\ inv'[i] = [IdleInv EXCEPT !.caller = inv'[i].caller,
                                           !.cpc = "awaiting", !.pc = "done",
                                           !.result = AlreadyInProgress]
              /\ ~AlreadyInProgress.success
              /\ \A j \in Slots \ {i} : inv'[j] = inv[j]
              /\ UNCHANGED <<isSending, clock, sosLogs, alerts, userId>>]_vars

\* C1's case: a call was rejected and the invocation that holds the guard
\* is still running.
C1_Witness ==
    \E i, j \in Slots :
        /\ InFlight(j) /\ isSending
        /\ inv[i].pc = "done" /\ ~inv[i].accepted
        /\ inv[i].result = AlreadyInProgress

\* C2 as stated: at most one accepted invocation is between setting the
\* guard and returning.
C2_AtMostOneInFlight == Cardinality(InFlightSet) <= 1

\* C3: the step by which an invocation that set the guard returns leaves
\* the guard false.
C3_GuardClearAtReturn ==
    [][\A i \in Slots :
          (inv[i].pc # "done" /\ inv'[i].pc = "done" /\ inv'[i].accepted)
              => ~isSending']_vars

\* C3's case: an invocation that set the guard has returned through the
\* catch, another through a normal return, and the guard is false.
C3_Witness ==
    /\ ~isSending
    /\ \E i, j \in Slots :
          /\ inv[i].accepted /\ inv[i].pc = "done" /\ inv[i].caught # "none"
          /\ inv[j].accepted /\ inv[j].pc = "done" /\ inv[j].caught = "none"

\* C7 as stated: the guard is true exactly while one accepted invocation
\* has not returned.
C7_GuardIffOneInFlight == isSending <=> (Cardinality(InFlightSet) = 1)

\* C8 as stated: the caller's handling of a rejected trigger leaves the
\* guard of the running invocation, that invocation, the relay store and
\* the history as they were.
C8_RejectionLeavesGuard ==
    [][\A i \in Slots :
          (/\ inv[i].pc = "done" /\ ~inv[i].accepted
           /\ inv[i].cpc = "awaiting" /\ inv'[i].cpc = "handled"
           /\ InFlightSet # {})
              => /\ isSending' = isSending
                 /\ \A j \in Slots \ {i} : inv'[j] = inv[j]
                 /\ UNCHANGED <<sosLogs, alerts>>]_vars

----------------------------------------------------------------------------
\* Outcomes and history.

\* logSOSEvent of invocation i is not running.
LogSettled(i) == inv[i].logpc \notin {"read", "write"}

\* C4 as stated: an invocation that set the guard and returned has stored
\* exactly one history entry, with the success flag of its outcome.
C4_OneEntryPerTrigger ==
    \A i \in Slots :
        (inv[i].accepted /\ inv[i].pc = "done" /\ LogSettled(i)) =>
            /\ inv[i].appended = 1
            /\ inv[i].entry.success = inv[i].result.success

\* C5 as stated: in the direct build an empty recipient list gives the
\* no-contacts failure, no channel attempt, and one history entry.
C5_NoContactsLogged ==
    \A i \in Slots :
        (mode = "direct" /\ inv[i].pc = "done" /\ inv[i].recipients = 0) =>
            /\ inv[i].result = NoContacts
            /\ ~inv[i].result.success
            /\ inv[i].prompts = 0 /\ inv[i].sends = 0 /\ inv[i].opens = 0
            /\ inv[i].appended = 1

\* The steps whose exception reaches triggerSOS's catch, and the steps
\* that swallow their own.
CaughtSteps == {"haptic", "progress", "init", "create"}
AbsorbingSteps == {"location", "contacts", "directSend", "composer"}

\* C9 as stated: a failure at any step gives success=false with a message.
C9_AnyFailureFails ==
    \A i \in Slots :
        (/\ inv[i].accepted /\ inv[i].pc = "done"
         /\ (inv[i].caught # "none" \/ inv[i].absorbed # {}))
            => /\ ~inv[i].threw
               /\ ~inv[i].result.success
               /\ inv[i].result.message # ""

\* C9, amended: triggerSOS's promise is never rejected and every outcome
\* has a message; an exception of the haptic cue, the progress callback,
\* the identity initialisation or the relay create reaches the catch and
\* gives success=false; no other step's failure reaches it.
C9_NoExceptionEscapes ==
    \A i \in Slots :
        inv[i].pc = "done" =>
            /\ ~inv[i].threw
            /\ inv[i].result.message # ""
            /\ inv[i].caught \in CaughtSteps \cup {"none"}
            /\ inv[i].absorbed \subseteq AbsorbingSteps
            /\ inv[i].caught # "none" => inv[i].result = SosFailed
            /\ ~SosFailed.success

\* C9's case: a rejected relay create was turned into a failure outcome,
\* and a swallowed location failure ended in a success.
C9_Witness ==
    \E i, j \in Slots :
        /\ inv[i].pc = "done" /\ inv[i].caught = "create"
        /\ inv[i].result = SosFailed
        /\ inv[j].pc = "done" /\ "location" \in inv[j].absorbed
        /\ inv[j].result.success

----------------------------------------------------------------------------
\* Termination.

\* What the JavaScript runtime guarantees: an armed timer fires, and the
\* continuation of a settled promise runs.  Whether an awaited platform
\* operation ever settles is up to the platform: no fairness for it.
Scheduling ==
    \A i \in Slots :
        /\ WF_vars(PermReqTimeout(i))
        /\ WF_vars(PositionTimeout(i))
        /\ WF_vars(LocPositionTimeout(i))
        /\ WF_vars(HomeTimeout(i))
        /\ WF_vars(HomeResult(i))
        /\ WF_vars(TestResult(i))

FairSpec == Init /\ [][Next]_vars /\ Scheduling

\* C10 as stated: every invocation that set the guard eventually returns.
C10_EventuallyReturns ==
    \A i \in Slots : inv[i].accepted ~> (inv[i].pc = "done")

----------------------------------------------------------------------------
\* Sequential triggers: the direct build driven by TestSOS alone, whose
\* isLoading flag lets a trigger start only after the one before it was
\* shown, with every platform operation settling successfully.

SeqSlots == 1..MaxSeqTriggers

InitSeq ==
    /\ mode = "direct"
    /\ platform = "android"
    /\ directSms \in BOOLEAN
    /\ contacts \in 0..MaxContacts
    /\ lastKnown = TRUE
    /\ userId = "none"
    /\ isSending = FALSE
    /\ isLoading = FALSE
    /\ clock = 0
    /\ sosLogs = <<>>
    /\ alerts = {}
    /\ inv = [i \in SeqSlots |-> IdleInv]
    /\ bleModule = TRUE
    /\ notifiable = [s \in Services |-> [c \in Chars |-> FALSE]]
    /\ Constructed

NextSeq ==
    \/ \E i \in SeqSlots : sendTestSOS(i, "ok")
    \/ \E i \in SeqSlots : TestResult(i)
    \/ \E i \in SeqSlots : ContactsLoaded(i, "ok")
    \/ \E i \in SeqSlots : LocPermResolve(i, "granted")
    \/ \E i \in SeqSlots : LocPositionResolve(i, "fix")
    \/ \E i \in SeqSlots : SmsPermResolve(i, "granted")
    \/ \E i \in SeqSlots : DirectSendResolve(i, "ok")
    \/ \E i \in SeqSlots : CanOpenResolve(i, "true", FALSE)
    \/ \E i \in SeqSlots : LogRead(i, "ok")
    \/ \E i \in SeqSlots : LogWrite(i, "ok")

SeqSpec == InitSeq /\ [][NextSeq]_vars

\* The triggers that set the guard and have returned.
Completed == {i \in Inv : inv[i].accepted /\ inv[i].pc = "done"}

\* Every entry is newer than the one after it.
NewestFirst(logs) ==
    \A k \in 1..(Len(logs) - 1) : logs[k].timestamp > logs[k + 1].timestamp

\* C6 as stated: the log never holds more than 50 entries and is ordered
\* newest first; after 51 sequential completions from an empty log it holds
\* exactly 50, the 51st completion's at the head, the 1st completion's gone.
C6_FiftyAfterFiftyOne ==
    /\ Len(sosLogs) <= LogCap
    /\ NewestFirst(sosLogs)
    /\ Completed = 1..(LogCap + 1) =>
          /\ Len(sosLogs) = LogCap
          /\ sosLogs[1].by = LogCap + 1
          /\ \A k \in 1..Len(sosLogs) : sosLogs[k].by # 1

\* The part of C6 that logSOSEvent alone decides, for reference: when every
\* completion stored its entry, the log is the newest 50 of them in order.
C6_LogOfLoggedTriggers ==
    (\A i \in Completed : inv[i].appended = 1) =>
        /\ Len(sosLogs) = IF Cardinality(Completed) > LogCap THEN LogCap
                          ELSE Cardinality(Completed)
        /\ NewestFirst(sosLogs)
        /\ \A k \in 1..Len(sosLogs) :
              sosLogs[k].by = Cardinality(Completed) + 1 - k

----------------------------------------------------------------------------
\* The delivery channels of the direct build.

\* sendEmergencySMS of invocation i has concluded.
ChannelsDone(i) == inv[i].pending # NoResult

\* The composer was confirmed openable and opened.
ComposerOk(i) == inv[i].canOpenTrue /\ inv[i].opens > 0

\* C11 as stated: sendSmsToMultiple is called only when the native module
\* is present and the SEND_SMS request was granted; when either is missing
\* the composer is used and sendSmsToMultiple is not called.
C11_DirectSendNeedsPermission ==
    \A i \in Slots :
        /\ inv[i].pc \in {"directSend", "directRetry"} =>
              (platform = "android" /\ directSms /\ inv[i].smsGranted)
        /\ (platform # "android" \/ ~directSms) => inv[i].sends = 0
        /\ (inv[i].prompts = 1 /\ inv[i].pc # "smsPerm" /\ ~inv[i].smsGranted)
              => inv[i].sends = 0

\* C12 as stated: the composer channel reports success as soon as
\* canOpenURL returned true and the composer was opened, and reports
\* success only when canOpenURL returned true.
C12_ComposerSuccessNeedsCheck ==
    \A i \in Slots :
        (ChannelsDone(i) /\ ~inv[i].sent) =>
            /\ inv[i].pending.success => inv[i].canOpenTrue
            /\ (inv[i].canOpenTrue /\ "composer" \notin inv[i].absorbed)
                  => inv[i].pending.success

\* C13 as stated: after a failed sendSmsToMultiple the composer is tried;
\* the result is a failure exactly when every channel failed, and otherwise
\* the success of the first channel that succeeded.
C13_FirstChannelThatSucceeds ==
    \A i \in Slots :
        ChannelsDone(i) =>
            /\ "directSend" \in inv[i].absorbed =>
                  (inv[i].opens > 0 \/ "composer" \in inv[i].absorbed)
            /\ inv[i].pending.success <=> (inv[i].sent \/ ComposerOk(i))
            /\ inv[i].sent =>
                  inv[i].pending.message = "SOS sent automatically to N contact(s)!"
            /\ (~inv[i].sent /\ ComposerOk(i)) =>
                  inv[i].pending.message
                      = "SMS app opened for N contact(s). Please tap SEND!"

\* C14: without the native module (or off Android), when canOpenURL
\* returned true and openURL did not throw, the result is a success whose
\* message asks the user to tap SEND, the composer was opened once for all
\* the numbers, and sendSmsToMultiple was not called.
C14_ComposerWhenNoDirectSend ==
    \A i \in Slots :
        (/\ mode = "direct" /\ (platform # "android" \/ ~directSms)
         /\ ChannelsDone(i)
         /\ inv[i].canOpenTrue /\ "composer" \notin inv[i].absorbed) =>
            /\ inv[i].pending.success
            /\ inv[i].pending.message
                  = "SMS app opened for N contact(s). Please tap SEND!"
            /\ inv[i].opens = 1 /\ inv[i].openTo = "all"
            /\ inv[i].sends = 0
            /\ inv[i].pc = "done" => inv[i].result = inv[i].pending

\* C14's case: on Android without the native module, an invocation
\* returned after canOpenURL said true.
C14_Witness ==
    \E i \in Slots :
        /\ mode = "direct" /\ platform = "android" /\ ~directSms
        /\ inv[i].pc = "done" /\ inv[i].canOpenTrue
        /\ inv[i].result.success /\ inv[i].opens = 1

\* C15 as stated: one invocation requests the SEND_SMS permission at most
\* once.
C15_OneSmsPrompt == \A i \in Slots : inv[i].prompts <= 1

----------------------------------------------------------------------------
\* The relay record of the cloud build.

\* The records invocation i created.
CreatedBy(i) == {a \in alerts : a.by = i}

RecordAsSpecified(i, a) ==
    /\ a.status = "active"
    /\ a.senderId = userId /\ userId \in UserIds
    /\ inv[i].loc = "live" =>
          /\ a.location = LivePosition
          /\ a.locationUrl = "https://maps.google.com/?q=37.5,-122.5"
    /\ inv[i].loc = "last" =>
          /\ a.location = LastKnownPosition
          /\ a.locationUrl = "https://maps.google.com/?q=37,-122"
    /\ inv[i].loc = "none" =>
          /\ a.location = [lat |-> 0, lng |-> 0]
          /\ a.locationUrl = "Location not available"

\* C17 as stated: every invocation that set the guard calls createSOSAlert
\* exactly once, never reads the contacts, and its record is as specified.
C17_CreateOncePerTrigger ==
    \A i \in Slots :
        (mode = "cloud" /\ inv[i].accepted /\ inv[i].pc = "done") =>
            /\ inv[i].creates = 1
            /\ inv[i].recipients = -1
            /\ \A a \in CreatedBy(i) : RecordAsSpecified(i, a)

\* C17, amended: createSOSAlert is called at most once per invocation, and
\* exactly once when the haptic cue, the progress callback and
\* firebaseService.init did not throw; the contacts are never read; the
\* record is as specified.
C17_CreateOncePerSend ==
    \A i \in Slots :
        mode = "cloud" =>
            /\ inv[i].creates <= 1
            /\ Cardinality(CreatedBy(i)) <= 1
            /\ (inv[i].accepted /\ inv[i].pc = "done") =>
                  (inv[i].creates = 1 <=>
                      inv[i].caught \notin {"haptic", "progress", "init"})
            /\ inv[i].recipients = -1
            /\ \A a \in CreatedBy(i) : RecordAsSpecified(i, a)

\* C17's case: a record with the last known position, a record with the
\* sentinel, or an invocation that ended before the sending phase.
C17_Witness ==
    \E i, j \in Slots :
        /\ mode = "cloud"
        /\ inv[i].pc = "done" /\ inv[i].loc = "last" /\ CreatedBy(i) # {}
        /\ inv[j].pc = "done" /\ inv[j].loc = "none" /\ CreatedBy(j) # {}

----------------------------------------------------------------------------
\* The location acquirer.

\* C18 as stated: after the timer won the race against the position
\* request, the result is the cached position with its link when there is
\* one and no coordinates and no link when there is none; every result has
\* a link exactly when it has coordinates.
C18_TimeoutFallsBackToLastKnown ==
    \A i \in Slots :
        LET l == LocationResult(inv[i])
        IN  /\ (l.url # <<>>) <=> (l.coords # <<>>)
            /\ (/\ inv[i].perm = "granted" /\ inv[i].timedOut
                 /\ inv[i].pc # "lastKnown" /\ inv[i].fallback # "failed") =>
                  IF lastKnown
                  THEN /\ l.coords = <<LastKnownPosition>>
                       /\ l.url = <<"https://maps.google.com/?q=37,-122">>
                  ELSE l.coords = <<>> /\ l.url = <<>>

\* The part of C18 that getLocationFast decides, for reference: the cloud
\* build does fall back to the cached position.
C18_CloudFallsBack ==
    \A i \in Slots :
        (/\ mode = "cloud" /\ inv[i].timedOut
         /\ inv[i].pc # "lastKnown" /\ inv[i].fallback # "failed") =>
            IF lastKnown THEN inv[i].loc = "last" ELSE inv[i].loc = "none"

----------------------------------------------------------------------------
\* The link manager on its own: the pipeline at rest, the screen calling
\* BLEService, the platform settling its calls.

InitLink ==
    /\ mode = "cloud"
    /\ platform \in {"android", "ios", "web"}
    /\ directSms = FALSE
    /\ contacts = 0
    /\ lastKnown = FALSE
    /\ userId = "none"
    /\ isSending = FALSE
    /\ isLoading = FALSE
    /\ clock = 0
    /\ sosLogs = <<>>
    /\ alerts = {}
    /\ inv = [i \in Slots |-> IdleInv]
    /\ bleModule \in BOOLEAN
    /\ platform = "web" => ~bleModule
    /\ notifiable \in [Services -> [Chars -> BOOLEAN]]
    /\ Constructed

NextLink ==
    \/ \E o \in SettleOutcomes : isAvailable(o)
    \/ \E o \in SettleOutcomes : scanForDevices(o)
    \/ \E o \in PermOutcomes : ScanPermResolve(o)
    \/ PoweredOn
    \/ PowerTimeout
    \/ stopScan
    \/ \E d \in Devices : connectToDevice(d)
    \/ \E o \in SettleOutcomes : ConnectResolve(o)
    \/ \E o \in SettleOutcomes, t \in BOOLEAN : DiscoverResolve(o, t)
    \/ \E o \in SettleOutcomes : ServicesResolve(o)
    \/ \E o \in SettleOutcomes : CharacteristicsResolve(o)
    \/ disconnect(1)
    \/ \E o \in SettleOutcomes : CancelResolve(1, o)
    \/ \E d \in Devices : LinkError(d)

LinkSpec == InitLink /\ [][NextLink]_vars

\* C20 as stated: when connectToDevice returns false, connectedDevice is
\* null and the platform holds no connection to the device; when it
\* returns true, a subscription with the handler is in place for the device.
C20_FailedConnectLeavesIdle ==
    [][(conn.pc # "done" /\ conn'.pc = "done") =>
          /\ conn'.result = "false" =>
                /\ connectedDevice' = NoDevice
                /\ conn'.device \notin transport'
          /\ conn'.result = "true" =>
                /\ connectedDevice' = conn'.device
                /\ \E m \in monitors' : m.device = conn'.device]_vars

\* The part of C20 the catch does decide, for reference: a connect that
\* returns false leaves connectedDevice null.
C20_FailedConnectClearsDevice ==
    [][(conn.pc # "done" /\ conn'.pc = "done" /\ conn'.result = "false"
            /\ manager # "null")
          => connectedDevice' = NoDevice]_vars

\* No connect call and no disconnect call is in progress.
LinkQuiet ==
    /\ conn.pc \in {"idle", "done"}
    /\ \A k \in DiscSlots : disc[k].pc = "idle"

\* C21 as stated: the platform never holds more than one open connection,
\* and whenever no connect or disconnect is in progress the open
\* connections are exactly the device getConnectedDevice() reports.
C21_AtMostOneConnection ==
    /\ Cardinality(transport) <= 1
    /\ LinkQuiet =>
          transport = IF connectedDevice = NoDevice THEN {}
                      ELSE {connectedDevice}

\* C22 as stated: a step in which the platform reports the loss of the link
\* of the connected, subscribed device leaves getConnectedDevice() null.
C22_LinkErrorTearsDown ==
    [][(/\ connectedDevice # NoDevice
        /\ connectedDevice \in transport
        /\ connectedDevice \notin transport'
        /\ \E m \in monitors : m.device = connectedDevice)
          => connectedDevice' = NoDevice]_vars

\* A scan request ends in this step.
ScanReturns == scan.pc # "done" /\ scan'.pc = "done"

\* C24: the platform scan is started, and isScanning set, only by a request
\* whose permissions were granted and whose wait for the radio ended with
\* PoweredOn; a request that fails on either reports exactly one error and
\* leaves isScanning and the platform scan as they were.
C24_ScanOnlyWhenReady ==
    [][/\ ((isScanning' /\ ~isScanning) \/ (deviceScan' /\ ~deviceScan))
            => /\ scan.pc = "power" /\ scan.granted
               /\ scan'.pc = "done" /\ scan'.errors = 0
       /\ (ScanReturns /\ (~scan'.granted \/ scan'.errors # 0))
            => /\ scan'.errors = 1
               /\ UNCHANGED <<isScanning, deviceScan>>]_vars

\* C24 witness: on Android the permissions were granted, the radio did not
\* power on in time, one error was reported and nothing is scanning.
C24_Witness ==
    /\ platform = "android"
    /\ scan.pc = "done" /\ scan.granted /\ scan.errors = 1
    /\ ~isScanning /\ ~deviceScan

\* What the callers of an unavailable BLEService see: nothing scans, no
\* scan or connect request is left awaiting, every scan request ended with
\* one error, every connect request returned false, nothing is connected.
Unavailable ==
    /\ ~isScanning /\ ~deviceScan
    /\ scan.pc \in {"idle", "done"}
    /\ scan.pc = "done" => scan.errors = 1
    /\ conn.pc \in {"idle", "done"}
    /\ conn.pc = "done" => conn.result = "false"
    /\ transport = {} /\ connectedDevice = NoDevice

\* C25: once the first initialisation has ended without a manager, the
\* manager stays null (isAvailable() is false), new BleManager() is never
\* called again, every scan request reports an error without scanning and
\* every connect request returns false.
C25_UnavailableForGood ==
    [][/\ (initAttempted' /\ manager' = "null") => Unavailable'
       /\ (initAttempted /\ manager = "null")
            => manager' = "null" /\ built' = built]_vars

\* C25 witness: the constructor was called once and threw; a scan request
\* and a connect request were made afterwards.
C25_Witness ==
    /\ initAttempted /\ manager = "null" /\ built = 1
    /\ scan.pc = "done" /\ conn.pc = "done"

\* The connection lifecycle with overlapping disconnect calls and destroy,
\* on one platform with the native module present.  A released session
\* rejects every call made on it.
InitRelease ==
    /\ mode = "cloud"
    /\ platform = "android"
    /\ directSms = FALSE
    /\ contacts = 0
    /\ lastKnown = FALSE
    /\ userId = "none"
    /\ isSending = FALSE
    /\ isLoading = FALSE
    /\ clock = 0
    /\ sosLogs = <<>>
    /\ alerts = {}
    /\ inv = [i \in Slots |-> IdleInv]
    /\ bleModule = TRUE
    /\ notifiable = [s \in Services |-> [c \in Chars |-> FALSE]]
    /\ Constructed

NextRelease ==
    \/ \E o \in SettleOutcomes : isAvailable(o)
    \/ \E d \in Devices : connectToDevice(d)
    \/ \E o \in SettleOutcomes :
          (Released => o = "reject") /\ ConnectResolve(o)
    \/ \E o \in SettleOutcomes :
          (Released => o = "reject") /\ DiscoverResolve(o, FALSE)
    \/ \E k \in DiscSlots : disconnect(k)
    \/ \E k \in DiscSlots : disconnectIdle(k)
    \/ \E k \in DiscSlots, o \in SettleOutcomes :
          (Released => o = "reject") /\ CancelResolve(k, o)
    \/ \E k \in DiscSlots : destroy(k)
    \/ \E d \in Devices : LinkError(d)

ReleaseSpec == InitRelease /\ [][NextRelease]_vars

\* C26: a disconnect() call that finds no manager or no connected device
\* changes nothing and issues no cancel; a cancel is issued only for the
\* device that is connected at the call, so a call made after a completed
\* one is such a call without effect; and when an awaited cancel settles,
\* resolved or rejected, getConnectedDevice() is null.
C26_DisconnectIdempotent ==
    [][\A k \in DiscSlots :
          /\ (disc[k].pc = "idle" /\ disc'[k].pc = "returned"
                  /\ destroys' = destroys)
               => /\ UNCHANGED <<manager, connectedDevice, transport, monitors,
                                 isScanning, deviceScan, conn>>
                  /\ \A j \in DiscSlots :
                        disc'[j].pc = "cancel" => disc[j].pc = "cancel"
          /\ (disc[k].pc = "idle" /\ disc'[k].pc = "cancel")
               => /\ connectedDevice # NoDevice
                  /\ disc'[k].device = connectedDevice
          /\ (disc[k].pc = "cancel" /\ disc'[k].pc # "cancel")
               => connectedDevice' = NoDevice]_vars

\* C26 witness: after a successful connect a disconnect completed although
\* its cancel was rejected (the connection is still open), and a second
\* disconnect call returned without effect.
C26_Witness ==
    /\ conn.pc = "done" /\ conn.result = "true" /\ ~Released
    /\ connectedDevice = NoDevice /\ transport # {}
    /\ \E k \in DiscSlots : disc[k].pc = "returned"

\* C27 as stated: once the radio session is released, no destroy or
\* disconnect call issues manager.destroy() or cancelDeviceConnection on it.
C27_NoUseAfterRelease ==
    [][Released =>
          /\ destroys' = destroys
          /\ \A k \in DiscSlots :
                disc'[k].pc = "cancel" => disc[k].pc = "cancel"]_vars

\* DeviceScreen scanning and connecting to a listed device, with the native
\* module present.
InitScan ==
    /\ mode = "cloud"
    /\ platform \in {"android", "ios"}
    /\ directSms = FALSE
    /\ contacts = 0
    /\ lastKnown = FALSE
    /\ userId = "none"
    /\ isSending = FALSE
    /\ isLoading = FALSE
    /\ clock = 0
    /\ sosLogs = <<>>
    /\ alerts = {}
    /\ inv = [i \in Slots |-> IdleInv]
    /\ bleModule = TRUE
    /\ notifiable = [s \in Services |-> [c \in Chars |-> FALSE]]
    /\ Constructed

NextScan ==
    \/ \E o \in SettleOutcomes : startScan(o)
    \/ \E o \in PermOutcomes : ScanPermResolve(o)
    \/ PoweredOn
    \/ PowerTimeout
    \/ \E p \in Advertisers : DeviceFound(p)
    \/ stopScan
    \/ \E n \in 1..MaxSessions : AutoStop(n)
    \/ \E d \in Devices : d \in Listed(devices) /\ connectToDevice(d)
    \/ \E o \in SettleOutcomes : ConnectResolve(o)
    \/ \E o \in SettleOutcomes : DiscoverResolve(o, FALSE)

ScanSpec == InitScan /\ [][NextScan]_vars

\* C28: DeviceScreen's list never holds an identifier twice; it changes only
\* by being emptied or by gaining one identifier not yet in it, so a
\* reported device stays listed once; and a step that starts a scan request
\* leaves it empty.
C28_OneEntryPerIdentifier ==
    [][/\ \A i, j \in DOMAIN devices' : devices'[i] = devices'[j] => i = j
       /\ devices' # devices =>
             \/ devices' = <<>>
             \/ \E p \in Advertisers \ Listed(devices) :
                   devices' = Append(devices, p)
       /\ (scan.pc \in {"idle", "done"} /\ scan' # scan)
             => devices' = <<>>]_vars

\* C28 witness: both peripherals are listed while the scan goes on
\* reporting them.
C28_Witness ==
    /\ deviceScan
    /\ Len(devices) = MaxDevices
    /\ Listed(devices) = Devices

\* The codec on its own: a byte sequence is encoded as the platform does
\* and the value is decoded by base64Decode.
InitCodec ==
    /\ mode = "cloud"
    /\ platform = "android"
    /\ directSms = FALSE
    /\ contacts = 0
    /\ lastKnown = FALSE
    /\ userId = "none"
    /\ isSending = FALSE
    /\ isLoading = FALSE
    /\ clock = 0
    /\ sosLogs = <<>>
    /\ alerts = {}
    /\ inv = [i \in Slots |-> IdleInv]
    /\ bleModule = TRUE
    /\ notifiable = [s \in Services |-> [c \in Chars |-> FALSE]]
    /\ manager = "null"
    /\ initAttempted = FALSE
    /\ isScanning = FALSE
    /\ deviceScan = FALSE
    /\ connectedDevice = NoDevice
    /\ transport = {}
    /\ monitors = {}
    /\ scan = IdleScan
    /\ conn = IdleConn
    /\ disc = [k \in DiscSlots |-> IdleDisc]
    /\ built = 0
    /\ destroys = 0
    /\ devices = <<>>
    /\ events = <<>>
    /\ timers = [session |-> 0, owner |-> 0, armed |-> {}]
    /\ onSOSCallback = FALSE
    /\ notes = <<>>
    /\ callbacks = 0
    /\ codec \in {[IdleCodec EXCEPT !.bytes = b] : b \in ByteSeqs}

NextCodec ==
    \/ Encode
    \/ Decode

CodecSpec == InitCodec /\ [][NextCodec]_vars

\* C30: for every byte sequence, the value the platform makes of it has a
\* length that is a multiple of four, ends in two, one or no '=' as the
\* length of the sequence leaves a remainder of one, two or none on division
\* by three, and is decoded by base64Decode to the code units equal to the
\* bytes.
C30_DecodeInvertsEncode ==
    /\ codec.pc # "idle" =>
          /\ Len(codec.encoded) = 4 * ((Len(codec.bytes) + 2) \div 3)
          /\ Len(SelectSeq(codec.encoded, LAMBDA c : c = "="))
                = (3 - (Len(codec.bytes) % 3)) % 3
    /\ codec.pc = "decoded" => codec.decoded = codec.bytes

\* C30 witness: a sequence of four bytes, whose value ends in two '=', has
\* been decoded.
C30_Witness ==
    /\ codec.pc = "decoded"
    /\ codec.bytes = <<83, 251, 255, 0>>
    /\ codec.encoded = <<"U", "/", "v", "/", "A", "A", "=", "=">>

\* Connecting to one peripheral, subscribing and receiving notifications.
\* The peripheral has a notifiable characteristic in each service, the
\* second one of the first service and the first one of the second; the
\* platform rejects a connect to a device it is connected to.
InitNotify ==
    /\ mode = "cloud"
    /\ platform = "android"
    /\ directSms = FALSE
    /\ contacts = 0
    /\ lastKnown = FALSE
    /\ userId = "none"
    /\ isSending = FALSE
    /\ isLoading = FALSE
    /\ clock = 0
    /\ sosLogs = <<>>
    /\ alerts = {}
    /\ inv = [i \in Slots |-> IdleInv]
    /\ bleModule = TRUE
    /\ notifiable = [s \in Services |-> [c \in Chars |-> (s + c) % 2 = 1]]
    /\ Constructed

NextNotify ==
    \/ \E o \in SettleOutcomes : isAvailable(o)
    \/ setSOSCallback
    \/ connectToDevice(1)
    \/ \E o \in SettleOutcomes :
          (conn.device \in transport => o = "reject") /\ ConnectResolve(o)
    \/ \E o \in SettleOutcomes, t \in BOOLEAN : DiscoverResolve(o, t)
    \/ \E o \in SettleOutcomes : ServicesResolve(o)
    \/ \E o \in SettleOutcomes : CharacteristicsResolve(o)
    \/ \E m \in monitors, t \in Payloads : Notify(m, t)
    \/ \E d \in Devices : LinkError(d)

NotifySpec == InitNotify /\ [][NextNotify]_vars

\* The notified texts that contain 'SOS' or '1': 'SOS', 'x1y' and '1'.
SignalTexts == {<<83, 79, 83>>, <<120, 49, 121>>, <<49>>}

\* C23: the callback has been invoked once for each notification that came
\* while a callback was set and whose text contains 'SOS' or '1', and for
\* no other: N such notifications are N invocations.
C23_OnceForEachSignal ==
    callbacks = Cardinality({i \in DOMAIN notes :
                                notes[i].registered
                                    /\ notes[i].text \in SignalTexts})

\* C23 witness: three notifications of 'SOS' in a row, three invocations.
C23_Witness ==
    /\ Len(notes) = MaxNotifications
    /\ \A i \in DOMAIN notes :
          notes[i].text = <<83, 79, 83>> /\ notes[i].registered
    /\ callbacks = MaxNotifications

\* C29: the test is true of 'SOS' and of 'x1y' and false of 'ok', and with
\* a callback set a notification, on the primary subscription or on a
\* fallback one, invokes the callback exactly when its text contains 'SOS'
\* or '1'.
C29_RuleOfBothHandlers ==
    [][/\ classifyAsSOS(<<83, 79, 83>>)
       /\ classifyAsSOS(<<120, 49, 121>>)
       /\ ~classifyAsSOS(<<111, 107>>)
       /\ (Len(notes') = Len(notes) + 1 /\ onSOSCallback) =>
             IF notes'[Len(notes')].text \in SignalTexts
             THEN callbacks' = callbacks + 1
             ELSE callbacks' = callbacks]_vars

\* C29 witness: with a callback set, 'x1y' came on a fallback subscription
\* and 'ok' on the primary one, and the callback was invoked once.
C29_Witness ==
    /\ callbacks = 1
    /\ \E i, j \in DOMAIN notes :
          /\ notes[i] = [text |-> <<120, 49, 121>>, primary |-> FALSE,
                         registered |-> TRUE]
          /\ notes[j] = [text |-> <<111, 107>>, primary |-> TRUE,
                         registered |-> TRUE]

\* C37 as stated: once the logSOSEvent runs of two accepted triggers have
\* both stored their list, the log holds the entry of each, newest first.
C37_NoLostAppend ==
    \A i, j \in Slots :
        (i # j /\ inv[i].logpc = "done" /\ inv[j].logpc = "done") =>
            /\ \E k \in DOMAIN sosLogs : sosLogs[k] = inv[i].entry
            /\ \E k \in DOMAIN sosLogs : sosLogs[k] = inv[j].entry
            /\ NewestFirst(sosLogs)

\* C39 as stated: a trigger that Home reported as failed, by a failure
\* result or by its 15 s timer, has no record in the relay store.
C39_FailedReportMeansNoRecord ==
    \A i \in Slots :
        (inv[i].caller = "home" /\ inv[i].reported \in {"failed", "timeout"})
            => CreatedBy(i) = {}

\* C33 as stated: among the discovery events of one scanning session, the
\* device sink was called at most once for each peripheral identifier.
C33_SinkOncePerIdentifier ==
    \A i, j \in DOMAIN events :
        (events[i].given /\ events[j].given /\ events[i].id = events[j].id)
            => i = j

\* The substrings of the scan callback's test.
WantedParts ==
    {<<"H", "M">>, <<"B", "T">>, <<"S", "O", "S">>, <<"M", "L", "T">>,
     <<"B", "L", "E">>}

\* The name has the characters of part, in the same case, from offset k on.
HasAt(name, part, k) ==
    /\ k + Len(part) - 1 <= Len(name)
    /\ \A m \in 1..Len(part) : name[k + m - 1] = part[m]

\* C36: every discovery event handed to the device sink, and every device
\* in DeviceScreen's list, has a name that is present and holds one of HM,
\* BT, SOS, MLT, BLE in that very case.
C36_SinkOnlyAcceptedNames ==
    /\ \A e \in DOMAIN events :
          events[e].given =>
              /\ AdvertisedName(events[e].id) # <<>>
              /\ \E part \in WantedParts :
                    \E k \in 1..Len(AdvertisedName(events[e].id)) :
                        HasAt(AdvertisedName(events[e].id), part, k)
    /\ \A d \in Listed(devices) :
          \E part \in WantedParts :
              \E k \in 1..Len(AdvertisedName(d)) :
                  HasAt(AdvertisedName(d), part, k)

\* C36 witness: in one session the scan reported a peripheral, the phone,
\* the lower-case tag and the unnamed beacon, and only the peripheral went
\* to the sink.
C36_Witness ==
    /\ deviceScan
    /\ Len(events) = 3
    /\ \E e \in DOMAIN events : events[e].given
    /\ \E e \in DOMAIN events :
          events[e].id = MaxDevices + 2 /\ ~events[e].given
    /\ \E e \in DOMAIN events :
          events[e].id = MaxDevices + 3 /\ ~events[e].given
    /\ Len(devices) = 1

\* C38 as stated: a 15 s timer that fires and stops a running scan is the
\* timer of the startScan whose scan is running.
C38_TimerStopsOwnSession ==
    [][(timers'.armed # timers.armed /\ deviceScan /\ ~deviceScan')
          => timers.armed \ timers'.armed = {timers.owner}]_vars

\* C34 as stated: a subscription made by the fallback path is on a
\* notification-capable characteristic that no notification-capable
\* characteristic precedes, services first and then characteristics, so the
\* fallback holds one subscription for a device and no more.
C34_FallbackSubscribesFirstOnly ==
    \A m \in monitors :
        m.svc # 0 =>
            /\ notifiable[m.svc][m.chr]
            /\ ~\E s \in Services, c \in Chars :
                  /\ notifiable[s][c]
                  /\ s < m.svc \/ (s = m.svc /\ c < m.chr)

\* C35 as stated: the step that issues the transport connect leaves the
\* manager not scanning, and a scan that starts was requested after the
\* last connect attempt, not before it.
C35_ConnectEndsScanning ==
    [][/\ (conn'.pc = "connect" /\ conn.pc # "connect")
             => (~isScanning' /\ ~deviceScan')
       /\ (~deviceScan /\ deviceScan') => ~scan.preempted]_vars

----------------------------------------------------------------------------
\* The cloud build with the position request that lost its race settling
\* later, at any time.

InitRace ==
    /\ mode = "cloud"
    /\ platform = "android"
    /\ directSms = FALSE
    /\ contacts = 0
    /\ lastKnown \in BOOLEAN
    /\ userId = "id"
    /\ isSending = FALSE
    /\ isLoading = FALSE
    /\ clock = 0
    /\ sosLogs = <<>>
    /\ alerts = {}
    /\ inv = [i \in Slots |-> IdleInv]
    /\ bleModule = TRUE
    /\ notifiable = [s \in Services |-> [c \in Chars |-> FALSE]]
    /\ Constructed

NextRace ==
    \/ \E i \in Slots : sendTestSOS(i, "ok")
    \/ \E i \in Slots : TestResult(i)
    \/ \E i \in Slots : InitIdResolve(i, "id")
    \/ \E i \in Slots : InitPushResolve(i, "ok")
    \/ \E i \in Slots : PermCheckResolve(i, "granted")
    \/ \E i \in Slots, o \in PositionOutcomes : PositionResolve(i, o)
    \/ \E i \in Slots : PositionTimeout(i)
    \/ \E i \in Slots, o \in PositionOutcomes : PositionLate(i, o)
    \/ \E i \in Slots, o \in LastKnownOutcomes : LastKnownResolve(i, o)
    \/ \E i \in Slots, o \in SettleOutcomes : CreateResolve(i, o)
    \/ \E i \in Slots, o \in SettleOutcomes : LogRead(i, o)
    \/ \E i \in Slots, o \in SettleOutcomes : LogWrite(i, o)

RaceSpec == InitRace /\ [][NextRace]_vars

\* What getLocationFast returns when the 5 s timer won, by what
\* getLastKnownPositionAsync gave.
AfterTimer(r) ==
    IF r.fallback = "fix" THEN <<LastKnownPosition>> ELSE <<>>

\* C32: a live position that settled before the timer is returned with its
\* link and is in the record; once the timer has won, the result of acquire,
\* the relay record and the history entry of a sent alert have the cached
\* position or none, by the fallback alone, whatever the abandoned request
\* does later, in that trigger and in the triggers after it.
C32_FirstToSettleDecides ==
    /\ \A i \in Slots :
          /\ inv[i].timedOut =>
                /\ LocationResult(inv[i]).coords = AfterTimer(inv[i])
                /\ \A a \in CreatedBy(i) :
                      a.location = IF inv[i].fallback = "fix"
                                   THEN LastKnownPosition ELSE NoFixPosition
                /\ (inv[i].logpc # "none" /\ inv[i].entry.success) =>
                      inv[i].entry.location = (inv[i].fallback = "fix")
          /\ (~inv[i].timedOut /\ inv[i].loc = "live") =>
                /\ LocationResult(inv[i]).url = <<MapsLink(LivePosition)>>
                /\ \A a \in CreatedBy(i) :
                      /\ a.location = LivePosition
                      /\ a.locationUrl = MapsLink(LivePosition)
    /\ \A a \in alerts :
          a.location = LivePosition => ~inv[a.by].timedOut
    /\ \A k \in DOMAIN sosLogs :
          (inv[sosLogs[k].by].timedOut /\ sosLogs[k].success) =>
              sosLogs[k].location = (inv[sosLogs[k].by].fallback = "fix")

\* C32 witness: the timer won in the first trigger, its abandoned request
\* gave a fix afterwards, its record and history entry are stored, and the
\* second trigger has sent its record too.
C32_Witness ==
    /\ inv[1].timedOut /\ inv[1].late = "fix"
    /\ inv[1].fallback = "null"
    /\ CreatedBy(1) # {}
    /\ inv[1].logpc = "done"
    /\ inv[2].pc = "done" /\ CreatedBy(2) # {}
    /\ inv[2].late = "fix"

----------------------------------------------------------------------------
\* The phases of one invocation.

\* The texts triggerSOS gives to onStatusUpdate, in the order of its code.
Phases ==
    IF mode = "cloud"
    THEN <<"Initializing", "Getting location", "Sending Alert to Cloud">>
    ELSE <<"Loading contacts", "Getting your location", "Sending SOS message">>

\* The awaits of each phase, of both builds.
Awaits ==
    [first |-> {"initId", "initPush", "contacts"},
     location |-> {"permCheck", "permReq", "position", "lastKnown",
                   "locPerm", "locPosition"},
     sending |-> {"create", "smsPerm", "directSend", "smsPermRetry",
                  "directRetry", "canOpen", "log"}]

\* C31: what the progress callback of an accepted invocation has received
\* is a beginning of the build's three phase texts, in their order (the
\* cloud build adds 'No GPS Fix' after the third when it has no fix); an
\* invocation awaiting a call of a phase has received that phase's text and
\* none of a later phase; no location call was made before the second text
\* and no delivery call before the third; and the second text comes only
\* when the first phase's work is done.
C31_PhasesInOrder ==
    \A i \in Slots :
        inv[i].accepted =>
            LET p == inv[i].progress
                n == Len(inv[i].progress)
            IN  /\ n <= 3 => p = SubSeq(Phases, 1, n)
                /\ n > 3 => /\ mode = "cloud" /\ inv[i].loc = "none"
                            /\ p = Phases \o <<"No GPS Fix">>
                /\ inv[i].pc \in Awaits.first => n = 1
                /\ inv[i].pc \in Awaits.location => n = 2
                /\ inv[i].pc \in Awaits.sending => n >= 3
                /\ inv[i].locCalls > 0 => n >= 2
                /\ inv[i].creates + inv[i].prompts + inv[i].sends
                       + inv[i].opens > 0 => n >= 3
                /\ n >= 2 => IF mode = "cloud" THEN userId # "none"
                             ELSE inv[i].recipients > 0

\* C31 witness: a cloud invocation received the three texts and sent its
\* record with the cached position, after the 5 s timer won the race.
C31_Witness ==
    \E i \in Slots :
        /\ mode = "cloud"
        /\ inv[i].pc = "done" /\ inv[i].result.success
        /\ inv[i].progress = Phases
        /\ inv[i].timedOut /\ inv[i].fallback = "fix"
        /\ CreatedBy(i) # {}

\* C31 as stated, its last part: the step that issues the first call of the
\* sending phase leaves no location call of the invocation pending.
C31_NoCallWhileAnotherPending ==
    [][\A i \in Slots :
          (inv[i].pc \in Awaits.location /\ inv'[i].pc \in Awaits.sending) =>
              /\ inv'[i].perm # "timeout"
              /\ ~(inv'[i].timedOut /\ inv'[i].late = "none")]_vars

====
